---- MODULE Spec2Model ----
(***************************************************************************)
(* Discovery reconciliation and lineage inference engine.                  *)
(*                                                                         *)
(* Components modelled:                                                    *)
(*   - backend/utils/asset_deduplication.py  (Asset Reconciler)            *)
(*   - backend/utils/sql_lineage_extractor.py (SQL Lineage Extractor)      *)
(*   - backend/utils/ml_lineage_inference.py (Fuzzy Column Matcher)        *)
(*   - airflow/utils/storage_path_parser.py, airflow/config/azure_config.py*)
(*     (Path Normalizer)                                                   *)
(*   - backend/discovery_runner.py (the worker around the reconciler)      *)
(*   - airflow/utils/email_notifier.py (notifier)                          *)
(*                                                                         *)
(* Python values are modelled as tagged records so that None, a missing    *)
(* dictionary key, the empty string and a non-empty string stay distinct.  *)
(* Floating point scores are modelled as exact rationals <<num, den>>.     *)
(***************************************************************************)
EXTENDS Integers, Sequences, FiniteSets, TLC

VARIABLES
    rcIn,    \* arguments of the pending should_update_or_insert call
    rcOut,   \* its outcome: pending, a returned tuple, or a raised exception
    sqlIn,   \* SQL text of the pending extract_lineage call and what the parser does
    sqlOut,  \* its outcome: pending, the returned dict, or a raised exception
    fzIn,    \* arguments of the pending fuzzy_column_match call
    fzOut,   \* its outcome: pending or the returned (is_match, similarity)
    infIn,   \* arguments of the pending infer_relationships_ml call
    infOut,  \* its outcome: pending or the returned (column_lineage, confidence)
    pathIn,  \* operation and arguments of the pending path normaliser call
    pathOut, \* its outcome: pending, the returned location, or a raised exception
    dtIn,    \* arguments of the pending detect_transformation_pattern call
    dtOut,   \* its outcome: pending or the returned transformation_type
    assetsTable,     \* the rows of the assets table, in the order a query returns them
    workers,         \* each discovery worker's position, event, lookup result and decision
    latest,          \* per (connector_id, normalised path): the last discovered fingerprint
    data_discovery,  \* the rows of the data_discovery table the notifier reads and marks
    notifier,        \* position of the notify_new_discoveries run and what it holds
    outbox           \* the emails delivered so far, each the list of discovery ids it names

coreVars == <<rcIn, rcOut, sqlIn, sqlOut, fzIn, fzOut, infIn, infOut, pathIn, pathOut>>
detectVars == <<dtIn, dtOut>>
storeVars == <<assetsTable, workers, latest>>
notifierVars == <<data_discovery, notifier, outbox>>

vars == <<coreVars, detectVars, storeVars, notifierVars>>

(***************************************************************************)
(* Bounds                                                                  *)
(***************************************************************************)
MaxSqlTokens == 3    \* longest SQL text, in tokens
MaxExprs == 2        \* longest column list / SELECT list of a parsed statement
MaxNameLen == 2      \* longest exhaustively enumerated column name
MaxCols == 2         \* longest source / target column list
MaxPathAtoms == 3    \* longest exhaustively enumerated raw path, in path atoms

SeqsUpTo(S, n) == UNION {[1..k -> S] : k \in 0..n}

\* exact rationals for Python floats, in lowest terms with a positive denominator
RECURSIVE Gcd(_, _)
Gcd(a, b) == IF b = 0 THEN a ELSE Gcd(b, a % b)

Rat(n, d) == LET g == Gcd(n, d) IN IF g = 0 THEN <<0, 1>> ELSE <<n \div g, d \div g>>

RLeq(x, y) == x[1] * y[2] <= y[1] * x[2]
RLess(x, y) == x[1] * y[2] < y[1] * x[2]
RMax(x, y) == IF RLeq(x, y) THEN y ELSE x
RMin(x, y) == IF RLeq(x, y) THEN x ELSE y
RAdd(x, y) == Rat(x[1] * y[2] + y[1] * x[2], x[2] * y[2])
RMul(x, y) == Rat(x[1] * y[1], x[2] * y[2])

(***************************************************************************)
(* Python values                                                           *)
(***************************************************************************)
\* dict.get(key) on a key the dictionary does not hold
Absent == [t |-> "absent", s |-> ""]
PyNone == [t |-> "none", s |-> ""]
Str(x) == [t |-> "str", s |-> x]

\* bool(v) of a scalar: None, a missing key and "" are falsy
Truthy(v) == v.t = "str" /\ v.s # ""

\* Python's  a or b
PyOr(a, b) == IF Truthy(a) THEN a ELSE b

\* x or None
OrNone(v) == IF Truthy(v) THEN v ELSE PyNone

(***************************************************************************)
(* Asset records (backend/models.py: Asset.technical_metadata is JSON)     *)
(***************************************************************************)
StoredHashes == {"", "h1", "h2"}
NewHashes == {"h1", "h2"}

Scalars == {Absent, PyNone} \cup {Str(h) : h \in StoredHashes}

\* the 'hash' entry of the bag: missing, null, a bare string, or a dict whose
\* 'value' key is missing / null / a string
HashEntries ==
    {[t |-> "absent", s |-> "", value |-> Absent],
     [t |-> "none", s |-> "", value |-> Absent],
     [t |-> "str", s |-> "h1", value |-> Absent]}
    \cup {[t |-> "dict", s |-> "", value |-> v] : v \in Scalars}

TechNull ==
    [t |-> "none", file_hash |-> Absent,
     hash |-> [t |-> "absent", s |-> "", value |-> Absent],
     schema_hash |-> Absent]

TechMetas ==
    {TechNull} \cup
    [t : {"dict"}, file_hash : Scalars, hash : HashEntries, schema_hash : Scalars]

NoAsset == [t |-> "none", id |-> 0, technical_metadata |-> TechNull]

Assets == [t : {"asset"}, id : {1}, technical_metadata : TechMetas]

(***************************************************************************)
(* asset_deduplication.py                                                  *)
(***************************************************************************)
Returned(u, sc) == [k |-> "return", update |-> u, schema_changed |-> sc]
Raised == [k |-> "raise", update |-> FALSE, schema_changed |-> FALSE]
Pending == [k |-> "pending", update |-> FALSE, schema_changed |-> FALSE]

\* tech_meta.get('hash', {}).get('value'): .get exists only on a dict
HashValueRaises(entry) == entry.t \in {"none", "str"}

HashValue(entry) == IF entry.t = "dict" THEN entry.value ELSE Absent

\* get_asset_hashes: [raises, file_hash, schema_hash]
get_asset_hashes(asset) ==
    LET tm == asset.technical_metadata
        \* asset.technical_metadata or {}
        fh == IF tm.t = "none" THEN Absent ELSE tm.file_hash
        he == IF tm.t = "none"
              THEN [t |-> "absent", s |-> "", value |-> Absent] ELSE tm.hash
        sh == IF tm.t = "none" THEN Absent ELSE tm.schema_hash
    IN  IF ~Truthy(fh) /\ HashValueRaises(he)
        THEN [raises |-> TRUE, file_hash |-> PyNone, schema_hash |-> PyNone]
        ELSE [raises |-> FALSE,
              file_hash |-> OrNone(PyOr(fh, HashValue(he))),
              schema_hash |-> OrNone(sh)]

\* compare_hashes: <<file_changed, schema_changed>>
compare_hashes(existing_file_hash, existing_schema_hash, new_file_hash, new_schema_hash) ==
    <<IF Truthy(existing_file_hash)
        THEN existing_file_hash # new_file_hash ELSE TRUE,
      IF Truthy(existing_schema_hash)
        THEN existing_schema_hash # new_schema_hash ELSE TRUE>>

\* variant without the "if not existing_asset" early return: a missing asset is
\* compared like an asset with an empty bag
should_update_or_insert_no_early_return(existing_asset, new_file_hash, new_schema_hash) ==
    LET hs == get_asset_hashes(existing_asset)
        ch == compare_hashes(hs.file_hash, hs.schema_hash,
                             new_file_hash, new_schema_hash)
    IN  IF hs.raises THEN Raised
        ELSE IF ch[2] THEN Returned(TRUE, TRUE)
        ELSE IF ch[1] THEN Returned(FALSE, FALSE)
        ELSE Returned(FALSE, FALSE)

should_update_or_insert(existing_asset, new_file_hash, new_schema_hash) ==
    IF existing_asset.t = "none"
    THEN Returned(TRUE, FALSE)
    ELSE LET hs == get_asset_hashes(existing_asset)
             ch == compare_hashes(hs.file_hash, hs.schema_hash,
                                  new_file_hash, new_schema_hash)
         IN  IF hs.raises THEN Raised
             ELSE IF ch[2] THEN Returned(TRUE, TRUE)
             ELSE IF ch[1] THEN Returned(FALSE, FALSE)
             ELSE Returned(FALSE, FALSE)

(***************************************************************************)
(* sql_lineage_extractor.py: the parsed statement                          *)
(*                                                                         *)
(* The structured parser is an external library.  A parsed statement is    *)
(* modelled by what the extractor reads from it: the classes it is an      *)
(* instance of, the chain parsed.this -> .this -> ..., the expressions of  *)
(* parsed.expression, the first Select found and the From / Join tables.   *)
(***************************************************************************)
\* an expression of a SELECT list or of a column list
ColNode(n) == [cls |-> "Column", name |-> n, alias |-> "", inner |-> ""]
IdentNode(n) == [cls |-> "Identifier", name |-> n, alias |-> "", inner |-> ""]
AliasNode(al, in, n) == [cls |-> "Alias", name |-> n, alias |-> al, inner |-> in]
FuncNode(n) == [cls |-> "Func", name |-> n, alias |-> "", inner |-> ""]

\* a, a AS x, SUM(a) AS y, a + 1 AS z, SUM(a)
SelectNodes ==
    {ColNode("a"), AliasNode("x", "Column", "a"), AliasNode("y", "Agg", "a"),
     AliasNode("z", "Other", "a"), FuncNode("a")}

\* what parsed.expression.expressions may hold
ExprNodes == {ColNode("c"), IdentNode("d")}

\* parsed.this and the .this chain below it, ending in a named node or not
ThisChains == {<<"Table">>, <<"Identifier">>, <<"Schema", "Table">>, <<"Other">>}

\* tables of the From and Join nodes found in the statement
SourceLists == {<<>>, <<"s">>, <<"s", "j">>}

NoAst ==
    [isa |-> {}, this |-> <<"Other">>, this_name |-> "",
     has_expression |-> FALSE, expression_expressions |-> <<>>,
     has_select |-> FALSE, select_expressions |-> <<>>,
     from_tables |-> <<>>, join_tables |-> <<>>, subquery_tables |-> <<>>]

InsertAsts ==
    [isa : {{"Insert"}}, this : ThisChains, this_name : {"t"},
     has_expression : {TRUE}, expression_expressions : SeqsUpTo(ExprNodes, MaxExprs),
     has_select : {TRUE}, select_expressions : SeqsUpTo(SelectNodes, MaxExprs),
     from_tables : {<<>>, <<"s">>}, join_tables : {<<>>}, subquery_tables : {<<>>}]
    \cup
    \* parsed.expression is the SELECT itself: its expressions are the SELECT list
    {[isa |-> {"Insert"}, this |-> th, this_name |-> "t",
      has_expression |-> TRUE, expression_expressions |-> q,
      has_select |-> TRUE, select_expressions |-> q,
      from_tables |-> f, join_tables |-> <<>>, subquery_tables |-> <<>>] :
        th \in ThisChains, q \in SeqsUpTo(SelectNodes, MaxExprs),
        f \in {<<>>, <<"s">>}}
    \cup
    \* INSERT ... VALUES: no Select below the statement
    [isa : {{"Insert"}}, this : {<<"Schema", "Table">>}, this_name : {"t"},
     has_expression : BOOLEAN, expression_expressions : {<<>>},
     has_select : {FALSE}, select_expressions : {<<>>},
     from_tables : {<<>>}, join_tables : {<<>>}, subquery_tables : {<<>>}]

CreateAsts(hasCreateView) ==
    [isa : {{"Create"}} \cup
           (IF hasCreateView THEN {{"CreateView"}, {"Create", "CreateView"}} ELSE {}),
     this : ThisChains, this_name : {"t"},
     has_expression : {TRUE}, expression_expressions : {<<>>},
     has_select : BOOLEAN, select_expressions : SeqsUpTo(SelectNodes, MaxExprs),
     from_tables : {<<>>, <<"s">>}, join_tables : {<<>>}, subquery_tables : {<<>>}]

\* a bare SELECT, and a statement of any other class (UPDATE, DELETE, UNION ...)
OtherAsts ==
    [isa : {{"Select"}, {}}, this : {<<"Other">>}, this_name : {""},
     has_expression : {FALSE}, expression_expressions : {<<>>},
     has_select : {TRUE}, select_expressions : {<<ColNode("a")>>},
     from_tables : SourceLists, join_tables : {<<>>, <<"j">>},
     subquery_tables : {<<>>, <<"s">>, <<"u">>}]

Asts(hasCreateView) ==
    {a \in InsertAsts \cup CreateAsts(hasCreateView) \cup OtherAsts :
        a.has_select \/ a.select_expressions = <<>>}

(***************************************************************************)
(* sql_lineage_extractor.py: the SQL text (for the regex fallback)         *)
(***************************************************************************)
SqlTokens == {"insert", "into", "create", "table", "from", "join", "t1", "("}

\* str.upper()
Upper(tok) ==
    CASE tok = "insert" -> "INSERT"
      [] tok = "into" -> "INTO"
      [] tok = "create" -> "CREATE"
      [] tok = "table" -> "TABLE"
      [] tok = "from" -> "FROM"
      [] tok = "join" -> "JOIN"
      [] tok = "t1" -> "T1"
      [] OTHER -> tok

\* \w+ matches the token
IsWord(tok) == tok # "("

\* a SQL text is a string (a sequence of whitespace-separated tokens) or,
\* against the annotation, not a string at all (None)
SqlStr(toks) == [t |-> "str", toks |-> toks]
SqlNone == [t |-> "none", toks |-> <<>>]

SqlTexts == {SqlStr(q) : q \in SeqsUpTo(SqlTokens, MaxSqlTokens)} \cup {SqlNone}

\* texts paired with every parsed statement
SqlSamples == {SqlStr(<<"insert", "into", "t1">>), SqlStr(<<"from", "t1">>)}

(***************************************************************************)
(* sql_lineage_extractor.py: SQLLineageExtractor                           *)
(***************************************************************************)
SqlResult(st, tt, cl, qt, cs, em) ==
    [k |-> "return", source_tables |-> st, target_table |-> tt,
     column_lineage |-> cl, query_type |-> qt, confidence_score |-> cs,
     extraction_method |-> em]

SqlPending ==
    [k |-> "pending", source_tables |-> {}, target_table |-> PyNone,
     column_lineage |-> <<>>, query_type |-> PyNone,
     confidence_score |-> Rat(0, 1), extraction_method |-> ""]

SqlRaised ==
    [k |-> "raise", source_tables |-> {}, target_table |-> PyNone,
     column_lineage |-> <<>>, query_type |-> PyNone,
     confidence_score |-> Rat(0, 1), extraction_method |-> ""]

SeqToSet(q) == {q[i] : i \in 1..Len(q)}

RECURSIVE _extract_table_name(_, _)
_extract_table_name(chain, name) ==
    IF chain = <<>> THEN PyNone
    ELSE IF Head(chain) \in {"Table", "Identifier"} THEN Str(name)
    ELSE IF Head(chain) = "Schema" THEN _extract_table_name(Tail(chain), name)
    ELSE PyNone

\* tables of all From nodes, then of all Join nodes, then of every Subquery
_extract_source_tables(parsed) ==
    parsed.from_tables \o parsed.join_tables \o parsed.subquery_tables

Lineage(src, tgt, tr) ==
    [source_column |-> src, target_column |-> tgt,
     transformation |-> tr, transformation_type |-> tr]

\* names of the nodes of q that are exp.Column
RECURSIVE ColumnNames(_)
ColumnNames(q) ==
    IF q = <<>> THEN <<>>
    ELSE IF Head(q).cls = "Column"
         THEN <<Head(q).name>> \o ColumnNames(Tail(q))
         ELSE ColumnNames(Tail(q))

\* Column -> its name, Alias -> its alias, anything else is dropped
RECURSIVE SourceNames(_)
SourceNames(q) ==
    IF q = <<>> THEN <<>>
    ELSE IF Head(q).cls = "Column"
         THEN <<Head(q).name>> \o SourceNames(Tail(q))
    ELSE IF Head(q).cls = "Alias"
         THEN <<Head(q).alias>> \o SourceNames(Tail(q))
    ELSE SourceNames(Tail(q))

\* lines 178-201: one SELECT expression of CREATE ... AS SELECT / CREATE VIEW
CreateEntry(e) ==
    IF e.cls = "Alias" /\ e.inner = "Column"
        THEN <<Lineage(e.name, e.alias, "pass_through")>>
    ELSE IF e.cls = "Alias" /\ e.inner = "Agg"
        THEN <<Lineage("agg", e.alias, "aggregate")>>
    ELSE IF e.cls = "Column"
        THEN <<Lineage(e.name, e.name, "pass_through")>>
    ELSE <<>>

RECURSIVE CreateEntries(_)
CreateEntries(q) ==
    IF q = <<>> THEN <<>> ELSE CreateEntry(Head(q)) \o CreateEntries(Tail(q))

\* lines 163-171
InsertPairs(target_columns, source_columns) ==
    IF Len(target_columns) = Len(source_columns)
    THEN [i \in 1..Len(target_columns) |->
            Lineage(source_columns[i], target_columns[i], "pass_through")]
    ELSE <<>>

\* hasCreateView: the parser library defines exp.CreateView; when it does not,
\* evaluating exp.CreateView raises AttributeError, caught at line 203
_extract_column_lineage(parsed, hasCreateView) ==
    IF "Insert" \in parsed.isa
    THEN IF parsed.has_select
         THEN InsertPairs(
                IF parsed.has_expression
                  THEN ColumnNames(parsed.expression_expressions) ELSE <<>>,
                SourceNames(parsed.select_expressions))
         ELSE <<>>
    ELSE IF ~hasCreateView THEN <<>>
    ELSE IF parsed.isa \cap {"Create", "CreateView"} # {}
    THEN IF parsed.has_select
         THEN CreateEntries(parsed.select_expressions) ELSE <<>>
    ELSE <<>>

\* index of the leftmost match of  kw1\s+kw2\s+(\w+), 0 when there is none
SearchFrom(up, kw1, kw2) ==
    LET hits == {i \in 1..(Len(up) - 2) :
                    up[i] = kw1 /\ up[i + 1] = kw2 /\ IsWord(up[i + 2])}
    IN  IF hits = {} THEN 0
        ELSE CHOOSE i \in hits : \A j \in hits : i <= j

\* re.findall(kw\s+(\w+)): the non-overlapping matches, left to right
RECURSIVE FindAll(_, _, _)
FindAll(up, kw, i) ==
    IF i >= Len(up) THEN {}
    ELSE IF up[i] = kw /\ IsWord(up[i + 1])
         THEN {up[i + 1]} \cup FindAll(up, kw, i + 2)
         ELSE FindAll(up, kw, i + 1)

_fallback_extraction(sql_query) ==
    IF sql_query.t # "str"
    THEN \* sql_query.upper() raises inside the try block
         SqlResult({}, PyNone, <<>>, Str("UNKNOWN"), Rat(3, 10), "regex_fallback")
    ELSE
    LET up == [i \in 1..Len(sql_query.toks) |-> Upper(sql_query.toks[i])]
        ins == SearchFrom(up, "INSERT", "INTO")
        cre == SearchFrom(up, "CREATE", "TABLE")
    IN  SqlResult(
            FindAll(up, "FROM", 1) \cup FindAll(up, "JOIN", 1),
            IF cre # 0 THEN Str(up[cre + 2])
              ELSE IF ins # 0 THEN Str(up[ins + 2]) ELSE PyNone,
            <<>>,
            IF cre # 0 THEN Str("CREATE")
              ELSE IF ins # 0 THEN Str("INSERT") ELSE Str("UNKNOWN"),
            IF cre # 0 \/ ins # 0 THEN Rat(5, 10) ELSE Rat(3, 10),
            "regex_fallback")

\* lines 54-93: [exc, result]; exc when the isinstance chain reaches a missing
\* exp.CreateView
ParsedBody(parsed, hasCreateView) ==
    LET isa == parsed.isa
        classified == isa \cap {"Create", "Insert", "Select"} # {}
        qt == IF "Create" \in isa THEN Str("CREATE")
              ELSE IF "Insert" \in isa THEN Str("INSERT")
              ELSE IF "Select" \in isa THEN Str("SELECT")
              ELSE IF "CreateView" \in isa THEN Str("CREATE_VIEW")
              ELSE PyNone
        tt == IF "Create" \in isa \/ "Insert" \in isa
                 \/ ("Select" \notin isa /\ "CreateView" \in isa)
              THEN _extract_table_name(parsed.this, parsed.this_name)
              ELSE PyNone
        cs == IF "Create" \in isa \/ "Insert" \in isa THEN Rat(9, 10)
              ELSE IF "Select" \in isa THEN Rat(7, 10)
              ELSE IF "CreateView" \in isa THEN Rat(9, 10)
              ELSE Rat(8, 10)
    IN  [exc |-> ~classified /\ ~hasCreateView,
         result |-> SqlResult(
             SeqToSet(_extract_source_tables(parsed)), tt,
             IF Truthy(tt) THEN _extract_column_lineage(parsed, hasCreateView)
                           ELSE <<>>,
             qt, cs, "sql_parsing")]

\* extract_lineage with the handler of line 95 re-raising
extract_lineage_reraise(in) ==
    IF ~in.available THEN _fallback_extraction(in.sql)
    ELSE IF in.outcome = "raise" THEN SqlRaised
    ELSE IF in.outcome = "none" THEN _fallback_extraction(in.sql)
    ELSE LET body == ParsedBody(in.ast, in.hasCreateView)
         IN  IF body.exc THEN SqlRaised ELSE body.result

\* in.available: SQLGLOT_AVAILABLE; in.outcome: parse_one raises, returns a
\* falsy value, or returns the parsed statement in.ast
extract_lineage(in) ==
    IF ~in.available THEN _fallback_extraction(in.sql)
    ELSE IF in.outcome = "raise" THEN _fallback_extraction(in.sql)
    ELSE IF in.outcome = "none" THEN _fallback_extraction(in.sql)
    ELSE LET body == ParsedBody(in.ast, in.hasCreateView)
         IN  IF body.exc THEN _fallback_extraction(in.sql) ELSE body.result

SqlIdle ==
    [sql |-> SqlNone, available |-> FALSE, outcome |-> "none",
     hasCreateView |-> FALSE, ast |-> NoAst, is_view |-> FALSE]

\* is_view: the statement text is a CREATE VIEW.  The library represents it
\* by its CreateView class when it has one (a class of its own or a subclass
\* of Create), and by Create otherwise
ViewAst(ast, hasCreateView, is_view) ==
    IF hasCreateView THEN is_view <=> "CreateView" \in ast.isa
    ELSE is_view => "Create" \in ast.isa

\* every text with every way the parser can fail, and every parsed statement
\* with a few texts
SqlInputs ==
    [sql : SqlTexts, available : {FALSE}, outcome : {"none"},
     hasCreateView : {FALSE}, ast : {NoAst}, is_view : {FALSE}]
    \cup
    [sql : SqlTexts, available : {TRUE}, outcome : {"raise", "none"},
     hasCreateView : {FALSE}, ast : {NoAst}, is_view : {FALSE}]
    \cup
    UNION {{in \in [sql : SqlSamples, available : {TRUE}, outcome : {"ast"},
                    hasCreateView : {h}, ast : Asts(h), is_view : BOOLEAN] :
               ViewAst(in.ast, h, in.is_view)} : h \in BOOLEAN}

(***************************************************************************)
(* ml_lineage_inference.py: strings                                        *)
(*                                                                         *)
(* A column name is a sequence of one-character strings.                   *)
(***************************************************************************)
\* str.lower(), on the characters used here
LowerChar(c) ==
    CASE c = "A" -> "a"
      [] c = "B" -> "b"
      [] c = "C" -> "c"
      [] OTHER -> c

Lower(str) == [i \in 1..Len(str) |-> LowerChar(str[i])]

\* str.strip(): leading and trailing whitespace removed
RECURSIVE LStrip(_)
LStrip(str) ==
    IF str # <<>> /\ Head(str) = " " THEN LStrip(Tail(str)) ELSE str

RECURSIVE RStrip(_)
RStrip(str) ==
    IF str # <<>> /\ str[Len(str)] = " "
    THEN RStrip(SubSeq(str, 1, Len(str) - 1)) ELSE str

Strip(str) == RStrip(LStrip(str))

\* re.sub(r'[_\-\s]', '', s)
IsSeparator(c) == c \in {"_", "-", " "}
StripSeparators(str) == SelectSeq(str, LAMBDA c : ~IsSeparator(c))

StartsWith(str, p) == Len(p) <= Len(str) /\ SubSeq(str, 1, Len(p)) = p
EndsWith(str, x) ==
    Len(x) <= Len(str) /\ SubSeq(str, Len(str) - Len(x) + 1, Len(str)) = x

\* sub in str
Contains(str, sub) ==
    \E i \in 1..(Len(str) - Len(sub) + 1) :
        SubSeq(str, i, i + Len(sub) - 1) = sub

\* difflib.SequenceMatcher(None, a, b): length of the common run of a[i..] and
\* b[j..] inside a[..ahi), b[..bhi)
RECURSIVE RunLen(_, _, _, _, _, _)
RunLen(a, b, i, j, ahi, bhi) ==
    IF i < ahi /\ j < bhi /\ a[i] = b[j]
    THEN 1 + RunLen(a, b, i + 1, j + 1, ahi, bhi) ELSE 0

\* find_longest_match: the longest block, the earliest in a, then the earliest in b
find_longest_match(a, b, alo, ahi, blo, bhi) ==
    LET cand == {<<i, j>> : i \in alo..(ahi - 1), j \in blo..(bhi - 1)}
        len(c) == RunLen(a, b, c[1], c[2], ahi, bhi)
        best == CHOOSE c \in cand :
                    \A o \in cand :
                        \/ len(o) < len(c)
                        \/ len(o) = len(c) /\ c[1] < o[1]
                        \/ len(o) = len(c) /\ c[1] = o[1] /\ c[2] <= o[2]
    IN  IF cand = {} THEN <<alo, blo, 0>>
        ELSE <<best[1], best[2], len(best)>>

\* get_matching_blocks: total size of the blocks found left and right of the
\* longest one
RECURSIVE MatchedChars(_, _, _, _, _, _)
BlockSizes(a, b, alo, ahi, blo, bhi, m) ==
    IF m[3] = 0 THEN 0
    ELSE m[3]
         + MatchedChars(a, b, alo, m[1], blo, m[2])
         + MatchedChars(a, b, m[1] + m[3], ahi, m[2] + m[3], bhi)

MatchedChars(a, b, alo, ahi, blo, bhi) ==
    BlockSizes(a, b, alo, ahi, blo, bhi, find_longest_match(a, b, alo, ahi, blo, bhi))

\* the ratio without the factor 2.0: M / T
RatioHalved(a, b) ==
    IF Len(a) + Len(b) = 0 THEN Rat(1, 1)
    ELSE Rat(MatchedChars(a, b, 1, Len(a) + 1, 1, Len(b) + 1), Len(a) + Len(b))

\* SequenceMatcher.ratio(): 2.0 * M / T, and 1.0 for two empty strings
Ratio(a, b) ==
    IF Len(a) + Len(b) = 0 THEN Rat(1, 1)
    ELSE Rat(2 * MatchedChars(a, b, 1, Len(a) + 1, 1, Len(b) + 1),
             Len(a) + Len(b))

(***************************************************************************)
(* ml_lineage_inference.py: fuzzy_column_match                             *)
(***************************************************************************)
prefixes ==
    <<<<"t", "b", "l", "_">>,
      <<"d", "i", "m", "_">>,
      <<"f", "a", "c", "t", "_">>,
      <<"s", "t", "g", "_">>,
      <<"r", "a", "w", "_">>,
      <<"s", "r", "c", "_">>>>

suffixes ==
    <<<<"_", "i", "d">>,
      <<"_", "k", "e", "y">>,
      <<"_", "p", "k">>,
      <<"_", "f", "k">>>>

\* lines 64-68 and 70-74: each listed prefix (suffix), in list order, is cut
\* off when the name starts (ends) with it at that point
RECURSIVE CutPrefixes(_, _)
CutPrefixes(str, ps) ==
    IF ps = <<>> THEN str
    ELSE IF StartsWith(str, Head(ps))
         THEN CutPrefixes(SubSeq(str, Len(Head(ps)) + 1, Len(str)), Tail(ps))
         ELSE CutPrefixes(str, Tail(ps))

RECURSIVE CutSuffixes(_, _)
CutSuffixes(str, ss) ==
    IF ss = <<>> THEN str
    ELSE IF EndsWith(str, Head(ss))
         THEN CutSuffixes(SubSeq(str, 1, Len(str) - Len(Head(ss))), Tail(ss))
         ELSE CutSuffixes(str, Tail(ss))

Clean(str) == CutSuffixes(CutPrefixes(str, prefixes), suffixes)

Match(m, sc) == [k |-> "return", is_match |-> m, similarity |-> sc]
FzPending == [k |-> "pending", is_match |-> FALSE, similarity |-> Rat(0, 1)]

\* fuzzy_column_match without the substring floor of lines 54-55
fuzzy_column_match_no_substring_floor(column1, column2, threshold) ==
    IF column1 = <<>> \/ column2 = <<>> THEN Match(FALSE, Rat(0, 1))
    ELSE
    LET col1_lower == Strip(Lower(column1))
        col2_lower == Strip(Lower(column2))
        col1_norm == StripSeparators(col1_lower)
        col2_norm == StripSeparators(col2_lower)
        ratio == Ratio(col1_lower, col2_lower)
        similarity == IF Clean(col1_lower) = Clean(col2_lower)
                      THEN RMax(ratio, Rat(9, 10)) ELSE ratio
    IN  IF col1_lower = col2_lower THEN Match(TRUE, Rat(1, 1))
        ELSE IF col1_norm = col2_norm THEN Match(TRUE, Rat(95, 100))
        ELSE Match(RLeq(threshold, similarity), similarity)

\* lines 79-80
Thresholded(similarity, threshold) == Match(RLeq(threshold, similarity), similarity)

\* lines 54-55
SubstringFloor(col1_norm, col2_norm, similarity) ==
    IF Contains(col2_norm, col1_norm) \/ Contains(col1_norm, col2_norm)
    THEN RMax(similarity, Rat(85, 100)) ELSE similarity

\* lines 62-77
CleanFloor(col1_lower, col2_lower, similarity) ==
    IF Clean(col1_lower) = Clean(col2_lower)
    THEN RMax(similarity, Rat(9, 10)) ELSE similarity

\* lines 47-80, from the normalised names on
MatchNormalized(col1_lower, col2_lower, col1_norm, col2_norm, threshold) ==
    IF col1_norm = col2_norm THEN Match(TRUE, Rat(95, 100))
    ELSE Thresholded(
             CleanFloor(col1_lower, col2_lower,
                 SubstringFloor(col1_norm, col2_norm, Ratio(col1_lower, col2_lower))),
             threshold)

\* lines 40-80, from the lower-cased trimmed names on
MatchLowered(col1_lower, col2_lower, threshold) ==
    IF col1_lower = col2_lower THEN Match(TRUE, Rat(1, 1))
    ELSE MatchNormalized(col1_lower, col2_lower,
                         StripSeparators(col1_lower), StripSeparators(col2_lower),
                         threshold)

\* a column name is "" (or None) exactly when its sequence is empty
fuzzy_column_match(column1, column2, threshold) ==
    IF column1 = <<>> \/ column2 = <<>> THEN Match(FALSE, Rat(0, 1))
    ELSE MatchLowered(Strip(Lower(column1)), Strip(Lower(column2)), threshold)

\* column names: every string over NameChars up to MaxNameLen, and the names
\* that reach the prefix / suffix rules and the documented examples
NameChars == {"a", "b", "A", "_"}

SampleNames ==
    {<<"u", "s", "e", "r", "_", "i", "d">>,
     <<"u", "s", "e", "r", "i", "d">>,
     <<"c", "u", "s", "t", "o", "m", "e", "r", "_", "n", "a", "m", "e">>,
     <<"c", "u", "s", "t", "_", "n", "m">>,
     <<"c", "u", "s", "t", "_", "i", "d">>,
     <<"c", "u", "s", "t", "o", "m", "e", "r", "_", "i", "d">>,
     <<"o", "r", "d", "e", "r", "_", "d", "t">>,
     <<"o", "r", "d", "e", "r", "_", "d", "a", "t", "e">>,
     <<" ", "a">>,
     <<"a", " ", "b">>,
     <<"a", "-", "b">>,
     <<"t", "b", "l", "_", "a">>,
     <<"d", "i", "m", "_", "a", "_", "i", "d">>,
     <<"a", "_", "k", "e", "y">>,
     <<" ">>,
     <<"a", "b", "c">>,
     <<"a", "b", "d">>}

Names == SeqsUpTo(NameChars, MaxNameLen) \cup SampleNames

Thresholds == {Rat(0, 1), Rat(6, 10), Rat(8, 10), Rat(1, 1)}

FzIdle == [column1 |-> <<>>, column2 |-> <<>>, threshold |-> Rat(8, 10)]

(***************************************************************************)
(* ml_lineage_inference.py: infer_relationships_ml                         *)
(***************************************************************************)
\* a column dict is modelled by its 'name'; <<>> is a dict whose name is
\* missing, None or ""
NamedOnly(columns) == SelectSeq(columns, LAMBDA n : n # <<>>)

Entry(src, tgt, sc) ==
    [source_column |-> src, target_column |-> tgt,
     transformation |-> "pass_through", transformation_type |-> "pass_through",
     similarity_score |-> sc]

NoBest == [found |-> FALSE, best_match |-> <<>>, best_score |-> Rat(0, 1)]

\* lines 119-127 with  similarity >= best_score : the last target wins a tie
RECURSIVE ScanTargetsLastOnTies(_, _, _, _)
ScanTargetsLastOnTies(source_col, targets, matched_target, best) ==
    IF targets = <<>> THEN best
    ELSE LET target_col == Head(targets)
             m == fuzzy_column_match(source_col, target_col, Rat(6, 10))
         IN  IF target_col \in matched_target
             THEN ScanTargetsLastOnTies(source_col, Tail(targets), matched_target, best)
             ELSE IF m.is_match /\ RLeq(best.best_score, m.similarity)
             THEN ScanTargetsLastOnTies(source_col, Tail(targets), matched_target,
                      [found |-> TRUE, best_match |-> target_col,
                       best_score |-> m.similarity])
             ELSE ScanTargetsLastOnTies(source_col, Tail(targets), matched_target, best)

\* lines 119-127: the inner loop over target_col_names
\* lines 124-126: the best match after looking at target_col, which scored m
Better(target_col, m, best) ==
    IF m.is_match /\ RLess(best.best_score, m.similarity)
    THEN [found |-> TRUE, best_match |-> target_col, best_score |-> m.similarity]
    ELSE best

RECURSIVE ScanTargets(_, _, _, _)
ScanTargets(source_col, targets, matched_target, best) ==
    IF targets = <<>> THEN best
    ELSE IF Head(targets) \in matched_target
    THEN ScanTargets(source_col, Tail(targets), matched_target, best)
    ELSE ScanTargets(source_col, Tail(targets), matched_target,
             Better(Head(targets),
                    fuzzy_column_match(source_col, Head(targets), Rat(6, 10)),
                    best))

\* lines 115-140: the outer loop over source_col_names
RECURSIVE MatchColumns(_, _, _, _)
\* lines 128-140: what the outer loop does with the best match of a source
Record(sources, targets, matched_target, column_lineage, best) ==
    IF best.found /\ RLeq(Rat(6, 10), best.best_score)
    THEN MatchColumns(Tail(sources), targets,
             matched_target \cup {best.best_match},
             Append(column_lineage,
                    Entry(Head(sources), best.best_match, best.best_score)))
    ELSE MatchColumns(Tail(sources), targets, matched_target, column_lineage)

MatchColumns(sources, targets, matched_target, column_lineage) ==
    IF sources = <<>> THEN column_lineage
    ELSE Record(sources, targets, matched_target, column_lineage,
                ScanTargets(Head(sources), targets, matched_target, NoBest))

RECURSIVE SumScores(_)
SumScores(cl) ==
    IF cl = <<>> THEN Rat(0, 1)
    ELSE RAdd(Head(cl).similarity_score, SumScores(Tail(cl)))

IntMax(a, b) == IF a >= b THEN a ELSE b

\* lines 146-154 without the min(0.95, ...) cap
ConfidenceUncapped(match_count, total_similarity, n_source, n_target, min_matching_ratio) ==
    LET avg_similarity == RMul(total_similarity, Rat(1, match_count))
        match_ratio == Rat(match_count, IntMax(n_source, n_target))
        confidence == RAdd(RMul(match_ratio, Rat(6, 10)),
                           RMul(avg_similarity, Rat(4, 10)))
    IN  IF RLeq(min_matching_ratio, match_ratio)
        THEN RAdd(confidence, Rat(1, 10))
        ELSE confidence

\* lines 146-154
Confidence(match_count, total_similarity, n_source, n_target, min_matching_ratio) ==
    LET avg_similarity == RMul(total_similarity, Rat(1, match_count))
        match_ratio == Rat(match_count, IntMax(n_source, n_target))
        confidence == RAdd(RMul(match_ratio, Rat(6, 10)),
                           RMul(avg_similarity, Rat(4, 10)))
    IN  IF RLeq(min_matching_ratio, match_ratio)
        THEN RMin(Rat(95, 100), RAdd(confidence, Rat(1, 10)))
        ELSE confidence

Inferred(cl, c) == [k |-> "return", column_lineage |-> cl, confidence |-> c]
InfPending == [k |-> "pending", column_lineage |-> <<>>, confidence |-> Rat(0, 1)]

\* lines 142-160
Scored(column_lineage, n_source, n_target, min_matching_ratio) ==
    IF Len(column_lineage) = 0 THEN Inferred(<<>>, Rat(0, 1))
    ELSE Inferred(column_lineage,
                  Confidence(Len(column_lineage), SumScores(column_lineage),
                             n_source, n_target, min_matching_ratio))

\* lines 104-160, from the name lists on
InferNamed(source_col_names, target_col_names, min_matching_ratio) ==
    IF source_col_names = <<>> \/ target_col_names = <<>>
    THEN Inferred(<<>>, Rat(0, 1))
    ELSE Scored(MatchColumns(source_col_names, target_col_names, {}, <<>>),
                Len(source_col_names), Len(target_col_names), min_matching_ratio)

infer_relationships_ml(source_columns, target_columns, min_matching_ratio) ==
    IF source_columns = <<>> \/ target_columns = <<>> THEN Inferred(<<>>, Rat(0, 1))
    ELSE InferNamed(NamedOnly(source_columns), NamedOnly(target_columns),
                    min_matching_ratio)

\* column dicts: no name, or one of a few names with equal, near and far scores
\*   abc ~ ABC 1.0   abc ~ ab_c 0.95   abc ~ abd 2/3   abd ~ ab_c 4/7
InferColumns ==
    {<<>>, <<"a", "b", "c">>, <<"a", "b", "d">>, <<"A", "B", "C">>, <<"a", "b", "_", "c">>}

MinRatios == {Rat(3, 10), Rat(1, 1)}

InfIdle == [source_columns |-> <<>>, target_columns |-> <<>>,
            min_matching_ratio |-> Rat(3, 10)]

(***************************************************************************)
(* storage_path_parser.py: paths, patterns and parsers                     *)
(*                                                                         *)
(* A path is a sequence of one-character strings.  A hint is None or a     *)
(* string: NoHint or Hint(<characters>).                                   *)
(***************************************************************************)
UpperLetters ==
    <<"A", "B", "C", "D", "E", "F", "G", "H", "I", "J", "K", "L", "M",
      "N", "O", "P", "Q", "R", "S", "T", "U", "V", "W", "X", "Y", "Z">>
LowerLetters ==
    <<"a", "b", "c", "d", "e", "f", "g", "h", "i", "j", "k", "l", "m",
      "n", "o", "p", "q", "r", "s", "t", "u", "v", "w", "x", "y", "z">>

\* str.lower() / re.IGNORECASE folding of one character
AsciiLower(c) ==
    IF \E i \in 1..26 : UpperLetters[i] = c
    THEN LowerLetters[CHOOSE i \in 1..26 : UpperLetters[i] = c]
    ELSE c

LowerStr(str) == [i \in 1..Len(str) |-> AsciiLower(str[i])]

AbfsScheme == <<"a", "b", "f", "s", ":", "/", "/">>
AbfssScheme == <<"a", "b", "f", "s", "s", ":", "/", "/">>
HttpsScheme == <<"h", "t", "t", "p", "s", ":", "/", "/">>
HttpScheme == <<"h", "t", "t", "p", ":", "/", "/">>
S3Scheme == <<"s", "3", ":", "/", "/">>
GsScheme == <<"g", "s", ":", "/", "/">>
DfsSuffix ==
    <<".", "d", "f", "s", ".", "c", "o", "r", "e", ".",
      "w", "i", "n", "d", "o", "w", "s", ".", "n", "e", "t">>
BlobSuffix ==
    <<".", "b", "l", "o", "b", ".", "c", "o", "r", "e", ".",
      "w", "i", "n", "d", "o", "w", "s", ".", "n", "e", "t">>
Unknown == <<"u", "n", "k", "n", "o", "w", "n">>

\* the pattern literal lit (lower case) matches str at index i, ignoring case
MatchesAt(str, lit, i) ==
    /\ i >= 1
    /\ i + Len(lit) - 1 <= Len(str)
    /\ \A n \in 1..Len(lit) : AsciiLower(str[i + n - 1]) = lit[n]

\* str.startswith(p), case-sensitive
HasPrefix(str, p) == Len(p) <= Len(str) /\ SubSeq(str, 1, Len(p)) = p

\* index of the first c in str at or after from, 0 when there is none
IndexOf(str, c, from) ==
    IF \E i \in from..Len(str) : str[i] = c
    THEN CHOOSE i \in from..Len(str) :
             str[i] = c /\ \A j \in from..(i - 1) : str[j] # c
    ELSE 0

\* str.lstrip('/')
RECURSIVE LStripSlash(_)
LStripSlash(str) ==
    IF str # <<>> /\ Head(str) = "/" THEN LStripSlash(Tail(str)) ELSE str

NoMatch ==
    [ok |-> FALSE, protocol |-> <<>>, container |-> <<>>,
     account_name |-> <<>>, rest |-> <<>>]

\* ABFS_PATTERN  ^(abfs|abfss)://([^@]+)@([^.]+)\.dfs\.core\.windows\.net(.*)$
\* i: first index after the scheme, at: the first "@", dot: the first "."
\* after it
AbfsGroups(str, i, at, dot) ==
    IF at = 0 \/ at = i \/ dot = 0 \/ dot = at + 1 \/ ~MatchesAt(str, DfsSuffix, dot)
    THEN NoMatch
    ELSE [ok |-> TRUE,
          protocol |-> SubSeq(str, 1, i - 4),
          container |-> SubSeq(str, i, at - 1),
          account_name |-> SubSeq(str, at + 1, dot - 1),
          rest |-> SubSeq(str, dot + Len(DfsSuffix), Len(str))]

AbfsFrom(str, i, at) ==
    AbfsGroups(str, i, at, IF at = 0 THEN 0 ELSE IndexOf(str, ".", at + 1))

ABFS_PATTERN(str) ==
    IF MatchesAt(str, AbfsScheme, 1)
    THEN AbfsFrom(str, Len(AbfsScheme) + 1, IndexOf(str, "@", Len(AbfsScheme) + 1))
    ELSE IF MatchesAt(str, AbfssScheme, 1)
    THEN AbfsFrom(str, Len(AbfssScheme) + 1, IndexOf(str, "@", Len(AbfssScheme) + 1))
    ELSE NoMatch

\* BLOB_URL_PATTERN  ^https://([^.]+)\.blob\.core\.windows\.net/([^/]+)(.*)$
\* dot: the first "." after the scheme, c0: first index of the container,
\* sl: the first "/" at or after c0
BlobGroups(str, dot, c0, sl) ==
    IF c0 > Len(str) \/ sl = c0 THEN NoMatch
    ELSE [ok |-> TRUE,
          protocol |-> HttpsScheme,
          container |-> SubSeq(str, c0, IF sl = 0 THEN Len(str) ELSE sl - 1),
          account_name |-> SubSeq(str, Len(HttpsScheme) + 1, dot - 1),
          rest |-> IF sl = 0 THEN <<>> ELSE SubSeq(str, sl, Len(str))]

BlobFrom(str, dot) ==
    IF dot = 0 \/ dot = Len(HttpsScheme) + 1
       \/ ~MatchesAt(str, BlobSuffix \o <<"/">>, dot)
    THEN NoMatch
    ELSE BlobGroups(str, dot, dot + Len(BlobSuffix) + 1,
                    IndexOf(str, "/", dot + Len(BlobSuffix) + 1))

BLOB_URL_PATTERN(str) ==
    IF MatchesAt(str, HttpsScheme, 1)
    THEN BlobFrom(str, IndexOf(str, ".", Len(HttpsScheme) + 1))
    ELSE NoMatch

\* an optional string argument: None, or a string (possibly empty); a
\* dictionary entry that is not there
NoHint == [t |-> "none", s |-> <<>>]
Hint(x) == [t |-> "str", s |-> x]
Missing == [t |-> "absent", s |-> <<>>]

\* a parsed location; connection_string is Missing until one is attached
Location(type, account_name, container, path, protocol, full_url, method, container_type, storage_type) ==
    [k |-> "return", type |-> type, account_name |-> account_name,
     container |-> container, path |-> path, protocol |-> protocol,
     full_url |-> full_url,
     connection |-> [method |-> method, account_name |-> account_name,
                     connection_string |-> Missing],
     container_info |-> [name |-> container, type |-> container_type],
     metadata |-> [storage_type |-> storage_type]]

PathRaised == [k |-> "raise"]
PathPending == [k |-> "pending"]

\* ABFSParser.can_parse
AbfsCanParse(path) == path # <<>> /\ ABFS_PATTERN(Strip(path)).ok

\* ABFSParser.parse, from the match on
AbfsLocation(stripped, m) ==
    IF ~m.ok THEN PathRaised
    ELSE Location("azure_datalake", m.account_name, m.container,
                  LStripSlash(m.rest), LowerStr(m.protocol), stripped,
                  "service_principal", "filesystem", "azure_datalake_gen2")

AbfsParse(path) == AbfsLocation(Strip(path), ABFS_PATTERN(Strip(path)))

ProtocolPrefixes ==
    {HttpScheme, HttpsScheme, AbfsScheme, AbfssScheme, S3Scheme, GsScheme}

\* AzureBlobParser.can_parse
BlobCanParse(path) ==
    /\ path # <<>>
    /\ \/ BLOB_URL_PATTERN(Strip(path)).ok
       \/ /\ \E i \in 1..Len(path) : path[i] = "/"
          /\ \A p \in ProtocolPrefixes : ~HasPrefix(path, p)

\* truthiness of a hint, and  hint or "unknown"
Given(hint) == hint.t = "str" /\ hint.s # <<>>
OrUnknown(hint) == IF Given(hint) THEN hint.s ELSE Unknown

\* lines 175-193: account_name and container are None or strings here
BlobLocation(stripped, account_name, container, file_path) ==
    Location("azure_blob", OrUnknown(account_name), OrUnknown(container),
             file_path, <<"h", "t", "t", "p", "s">>,
             IF Given(account_name) /\ Given(container)
             THEN HttpsScheme \o account_name.s \o BlobSuffix \o <<"/">>
                  \o container.s \o <<"/">> \o file_path
             ELSE stripped,
             "connection_string", "blob_container", "azure_blob_storage")

\* the simple path format with the split of lines 163-170 also taken when
\* only one of account_name and container is given
BlobSimpleSplitOnOneHint(stripped, account_name, container, slash) ==
    IF Given(account_name) /\ Given(container)
    THEN BlobLocation(stripped, account_name, container, stripped)
    ELSE IF slash # 0
    THEN BlobLocation(stripped, account_name,
                      Hint(SubSeq(stripped, 1, slash - 1)),
                      SubSeq(stripped, slash + 1, Len(stripped)))
    ELSE BlobLocation(stripped, account_name, NoHint, stripped)

\* lines 156-173: the simple path format
BlobSimple(stripped, account_name, container, slash) ==
    IF Given(account_name) /\ Given(container)
    THEN BlobLocation(stripped, account_name, container, stripped)
    ELSE IF ~Given(account_name) /\ ~Given(container)
    THEN IF slash # 0
         THEN BlobLocation(stripped, account_name,
                           Hint(SubSeq(stripped, 1, slash - 1)),
                           SubSeq(stripped, slash + 1, Len(stripped)))
         ELSE BlobLocation(stripped, account_name, NoHint, stripped)
    ELSE BlobLocation(stripped, account_name, container, stripped)

BlobFromMatch(stripped, account_name, container, m) ==
    IF m.ok
    THEN BlobLocation(stripped, Hint(m.account_name), Hint(m.container),
                      LStripSlash(m.rest))
    ELSE BlobSimple(stripped, account_name, container, IndexOf(stripped, "/", 1))

\* AzureBlobParser.parse
BlobParse(path, account_name, container) ==
    BlobFromMatch(Strip(path), account_name, container, BLOB_URL_PATTERN(Strip(path)))

\* PathParserRegistry.parse without the fallback of lines 251-259
parse_storage_path_no_fallback(path, account_name, container) ==
    IF path = <<>> THEN PathRaised
    ELSE IF AbfsCanParse(path) /\ AbfsParse(path).k = "return" THEN AbfsParse(path)
    ELSE IF BlobCanParse(path) THEN BlobParse(path, account_name, container)
    ELSE PathRaised

\* parse_storage_path = PathParserRegistry.parse on the default registry:
\* ABFSParser, then AzureBlobParser, then the fallback with both hints
parse_storage_path(path, account_name, container) ==
    IF path = <<>> THEN PathRaised
    ELSE IF AbfsCanParse(path) /\ AbfsParse(path).k = "return" THEN AbfsParse(path)
    ELSE IF BlobCanParse(path) THEN BlobParse(path, account_name, container)
    ELSE IF Given(account_name) /\ Given(container)
    THEN BlobParse(path, account_name, container)
    ELSE PathRaised

(***************************************************************************)
(* azure_config.py: get_storage_location_json                              *)
(***************************************************************************)
\* connection_string or os.getenv("AZURE_STORAGE_CONNECTION_STRING", "")
OrEnv(connection_string, env) ==
    IF Given(connection_string) THEN connection_string ELSE Hint(env)

\* lines 120-133
LegacyLocation(account_name, container, blob_path, connection_string, env) ==
    [k |-> "return", type |-> "azure_blob", path |-> blob_path,
     connection |-> [method |-> "connection_string", account_name |-> account_name,
                     connection_string |-> OrEnv(connection_string, env)],
     container |-> [name |-> container, type |-> "blob_container"],
     metadata |-> [storage_type |-> "", protocol |-> Missing, full_url |-> Missing]]

\* lines 87-112
MergedLocation(parsed, connection_string, env) ==
    [k |-> "return", type |-> parsed.type, path |-> parsed.path,
     connection |-> [method |-> parsed.connection.method,
                     account_name |-> Hint(parsed.connection.account_name),
                     connection_string |-> OrEnv(connection_string, env)],
     container |-> [name |-> Hint(parsed.container_info.name),
                    type |-> parsed.container_info.type],
     metadata |-> [storage_type |-> parsed.metadata.storage_type,
                   protocol |-> IF parsed.protocol # <<>>
                                THEN Hint(parsed.protocol) ELSE Missing,
                   full_url |-> IF parsed.full_url # <<>>
                                THEN Hint(parsed.full_url) ELSE Missing]]

MergedOrLegacy(parsed, account_name, container, blob_path, connection_string, env) ==
    IF parsed.k = "return" THEN MergedLocation(parsed, connection_string, env)
    ELSE LegacyLocation(account_name, container, blob_path, connection_string, env)

get_storage_location_json(account_name, container, blob_path, connection_string, env, PARSER_AVAILABLE) ==
    IF PARSER_AVAILABLE
    THEN MergedOrLegacy(parse_storage_path(blob_path, account_name, container),
                        account_name, container, blob_path, connection_string, env)
    ELSE LegacyLocation(account_name, container, blob_path, connection_string, env)

(***************************************************************************)
(* Raw paths and hints                                                     *)
(***************************************************************************)
RECURSIVE Flatten(_)
Flatten(parts) == IF parts = <<>> THEN <<>> ELSE Head(parts) \o Flatten(Tail(parts))

PathAtoms ==
    {AbfsScheme, <<"A", "B", "F", "S", "S", ":", "/", "/">>, HttpsScheme,
     DfsSuffix, BlobSuffix, <<"/">>, <<"@">>, <<" ">>, <<"c">>}

\* what follows the host (data-lake URL) or the container (blob URL)
Rests ==
    {<<>>, <<"/">>, <<"/", "p">>, <<"/", "p", "/">>, <<"/", "/", "p">>,
     <<"/", "p", "/", "q">>}

AbfsSamples ==
    {sch \o <<"c", "@", "a">> \o DfsSuffix \o r :
        sch \in {AbfsScheme, AbfssScheme, <<"A", "b", "f", "S", ":", "/", "/">>},
        r \in Rests}

BlobSamples == {HttpsScheme \o <<"a">> \o BlobSuffix \o <<"/", "c">> \o r : r \in Rests}

BareSamples ==
    {<<"c", "/", "p">>, <<"c", "/", "p", "/">>, <<"/", "p">>, <<"p">>,
     <<"p", ".", "c", "s", "v">>, <<" ", "p", " ">>,
     S3Scheme \o <<"b", "/", "p">>, HttpScheme \o <<"a", "/", "p">>,
     <<"c", "/", "d", "/", "p", ".", "c", "s", "v">>}

PathSamples == AbfsSamples \cup BlobSamples \cup BareSamples

RawPaths == {Flatten(q) : q \in SeqsUpTo(PathAtoms, MaxPathAtoms)} \cup PathSamples

AccountHints == {NoHint, Hint(<<>>), Hint(<<"h">>)}
ContainerHints == {NoHint, Hint(<<>>), Hint(<<"k">>)}
ConnectionStrings == {NoHint, Hint(<<>>), Hint(<<"k", "e", "y">>)}
EnvConnectionStrings == {<<>>, <<"e", "n", "v">>}

PathIdle ==
    [op |-> "parse_storage_path", path |-> <<>>, account_name |-> NoHint,
     container |-> NoHint, connection_string |-> NoHint, env |-> <<>>,
     PARSER_AVAILABLE |-> TRUE]

PathInputs ==
    [op : {"parse_storage_path", "AzureBlobParser.parse"}, path : RawPaths,
     account_name : AccountHints, container : ContainerHints,
     connection_string : {NoHint}, env : {<<>>}, PARSER_AVAILABLE : {TRUE}]
    \cup
    [op : {"get_storage_location_json"}, path : PathSamples,
     account_name : {NoHint, Hint(<<"h">>)}, container : {NoHint, Hint(<<"k">>)},
     connection_string : ConnectionStrings, env : EnvConnectionStrings,
     PARSER_AVAILABLE : BOOLEAN]

(***************************************************************************)
(* ml_lineage_inference.py: detect_transformation_pattern                  *)
(***************************************************************************)
MaxDetectAtoms == 2

\* the aggregation markers, in the order of lines 174-175
AggMarkers ==
    <<<<"s", "u", "m", "_">>, <<"a", "v", "g", "_">>,
      <<"c", "o", "u", "n", "t", "_">>, <<"m", "a", "x", "_">>,
      <<"m", "i", "n", "_">>, <<"t", "o", "t", "a", "l", "_">>>>

\* str.replace(old, ''): the non-overlapping occurrences, left to right
RECURSIVE ReplaceFrom(_, _, _)
ReplaceFrom(str, old, i) ==
    IF i > Len(str) THEN <<>>
    ELSE IF i + Len(old) - 1 <= Len(str) /\ SubSeq(str, i, i + Len(old) - 1) = old
         THEN ReplaceFrom(str, old, i + Len(old))
         ELSE <<str[i]>> \o ReplaceFrom(str, old, i + 1)

Replace(str, old) == ReplaceFrom(str, old, 1)

\* the chain of .replace calls of line 175, one marker after the other
RECURSIVE ReplaceAll(_, _)
ReplaceAll(str, markers) ==
    IF markers = <<>> THEN str
    ELSE ReplaceAll(Replace(str, Head(markers)), Tail(markers))

\* any(agg in target_lower for agg in [...])
HasAggMarker(target_lower) ==
    \E i \in 1..Len(AggMarkers) : Contains(target_lower, AggMarkers[i])

\* lines 174-175
IsAggregate(source_lower, target_lower) ==
    /\ HasAggMarker(target_lower)
    /\ \/ Contains(target_lower, source_lower)
       \/ ReplaceAll(target_lower, AggMarkers) = source_lower

\* lines 182-184
IsRename(source_lower, target_lower) ==
    /\ source_lower # target_lower
    /\ RLess(Rat(7, 10), Ratio(source_lower, target_lower))

DetectLowered(source_lower, target_lower) ==
    IF IsAggregate(source_lower, target_lower) THEN "aggregate"
    ELSE IF IsRename(source_lower, target_lower) THEN "rename"
    ELSE "pass_through"

\* the transformation_type of the returned dict
detect_transformation_pattern(source_col, target_col) ==
    DetectLowered(Lower(source_col), Lower(target_col))

DtPending == "pending"
DtIdle == [source_col |-> <<>>, target_col |-> <<>>]

\* column names: a few atoms put together, and the matcher's sample names
DetectAtoms ==
    {<<"s", "u", "m", "_">>, <<"m", "i", "n", "_">>, <<"t", "o", "t", "a", "l", "_">>,
     <<"a">>, <<"b">>, <<"A">>, <<"m">>, <<"x", "_">>}

DetectNames ==
    {Flatten(parts) : parts \in SeqsUpTo(DetectAtoms, MaxDetectAtoms)} \cup SampleNames

DetectQuiet == dtIn = DtIdle /\ dtOut = DtPending

(***************************************************************************)
(* asset_deduplication.py: the assets table and check_asset_exists         *)
(***************************************************************************)
MaxRows == 2
MaxEvents == 2

Connectors == {"c1", "c2"}

\* a path value: a missing key, None, or a string of characters
NoLoc == [t |-> "absent", s |-> <<>>]
NullLoc == [t |-> "none", s |-> <<>>]
Loc(x) == [t |-> "str", s |-> x]

\* bool(v) of a path value
LocTruthy(v) == v.t = "str" /\ v.s # <<>>

RECURSIVE RStripSlash(_)
RStripSlash(str) ==
    IF str # <<>> /\ str[Len(str)] = "/"
    THEN RStripSlash(SubSeq(str, 1, Len(str) - 1)) ELSE str

\* normalize_path: "" for a falsy path, else path.strip('/').lower()
normalize_path(path) ==
    IF ~LocTruthy(path) THEN <<>>
    ELSE LowerStr(RStripSlash(LStripSlash(path.s)))

\* the technical_metadata bag of a row written by discovery
TechMeta(location, storage_path, file_hash, schema_hash) ==
    [t |-> "dict", location |-> location, storage_path |-> storage_path,
     file_hash |-> file_hash,
     hash |-> [t |-> "absent", s |-> "", value |-> Absent],
     schema_hash |-> schema_hash]

\* a row whose technical_metadata column is NULL
TechMetaNull ==
    [t |-> "none", location |-> NoLoc, storage_path |-> NoLoc,
     file_hash |-> Absent,
     hash |-> [t |-> "absent", s |-> "", value |-> Absent],
     schema_hash |-> Absent]

AssetRow(id, connector_id, technical_metadata) ==
    [t |-> "asset", id |-> id, connector_id |-> connector_id,
     technical_metadata |-> technical_metadata]

\* tech_meta.get('location') or tech_meta.get('storage_path') or ""
StoredLocation(asset) ==
    IF LocTruthy(asset.technical_metadata.location)
    THEN asset.technical_metadata.location
    ELSE IF LocTruthy(asset.technical_metadata.storage_path)
         THEN asset.technical_metadata.storage_path
         ELSE Loc(<<>>)

\* variant of the loop over all rows, as if the query had no connector filter
RECURSIVE FirstMatchAnyConnector(_, _, _, _)
FirstMatchAnyConnector(rows, connector_id, normalized_search_path, i) ==
    IF i > Len(rows) THEN NoAsset
    ELSE IF normalize_path(StoredLocation(rows[i])) = normalized_search_path
         THEN rows[i]
         ELSE FirstMatchAnyConnector(rows, connector_id, normalized_search_path, i + 1)

\* the loop of lines 85-96 over the rows of the connector, from row i on
RECURSIVE FirstMatch(_, _, _, _)
FirstMatch(rows, connector_id, normalized_search_path, i) ==
    IF i > Len(rows) THEN NoAsset
    ELSE IF /\ rows[i].connector_id = connector_id
            /\ normalize_path(StoredLocation(rows[i])) = normalized_search_path
         THEN rows[i]
         ELSE FirstMatch(rows, connector_id, normalized_search_path, i + 1)

\* outcome of a lookup whose query raised, if the handler re-raised it
LookupRaised == [t |-> "raise", id |-> 0, technical_metadata |-> TechNull]

\* variant whose except clause re-raises instead of returning None
check_asset_exists_reraise(rows, connector_id, storage_path, query_fails) ==
    IF query_fails THEN LookupRaised
    ELSE IF normalize_path(storage_path) = <<>> THEN NoAsset
    ELSE FirstMatch(rows, connector_id, normalize_path(storage_path), 1)

\* check_asset_exists: the asset found, or None (NoAsset); query_fails says
\* that loading the model or running the query raised inside the try block
check_asset_exists(rows, connector_id, storage_path, query_fails) ==
    IF query_fails THEN NoAsset
    ELSE IF normalize_path(storage_path) = <<>> THEN NoAsset
    ELSE FirstMatch(rows, connector_id, normalize_path(storage_path), 1)

\* storage paths of discovery events and of lookups
StoragePaths ==
    {Loc(<<"a">>), Loc(<<"/", "A", "/">>), Loc(<<"b">>), Loc(<<"/">>)}

\* rows other writers may have left in the table for a connector
RowMetas ==
    {TechMetaNull,
     TechMeta(Loc(<<"a">>), NoLoc, Str("h1"), Str("h1")),
     TechMeta(Loc(<<"/", "A", "/">>), NoLoc, Str("h1"), Str("h2")),
     TechMeta(NoLoc, Loc(<<"a">>), Str("h2"), Str("h1")),
     TechMeta(Loc(<<>>), Loc(<<"b">>), Str("h1"), Str("h1")),
     TechMeta(NullLoc, Loc(<<"B", "/">>), Str("h1"), Str("h1")),
     TechMeta(Loc(<<"/">>), NoLoc, Str("h1"), Str("h1"))}

\* the tables of up to MaxRows rows; the row at position i has id i
Tables ==
    UNION {{[i \in 1..n |-> AssetRow(i, cs[i], ms[i])] :
               cs \in [1..n -> Connectors], ms \in [1..n -> RowMetas]} :
           n \in 0..MaxRows}

\* a discovery event: the file found, its fingerprint, and whether the
\* lookup's query fails
Events ==
    [connector_id : Connectors, storage_path : StoragePaths,
     new_file_hash : {Str(h) : h \in NewHashes},
     new_schema_hash : {Str(h) : h \in NewHashes},
     query_fails : BOOLEAN]

(***************************************************************************)
(* The discovery worker around the reconciler: lookup, decide, write       *)
(***************************************************************************)
Worker(pc, event, existing, decision) ==
    [pc |-> pc, event |-> event, existing |-> existing, decision |-> decision]

\* the lookup of a worker for its event
Looked(rows, event) ==
    check_asset_exists(rows, event.connector_id, event.storage_path,
                       event.query_fails)

Decided(existing, event) ==
    should_update_or_insert(existing, event.new_file_hash, event.new_schema_hash)

\* the bag written by an insert or an update
EventMeta(event) ==
    TechMeta(event.storage_path, NoLoc, event.new_file_hash, event.new_schema_hash)

\* UPDATE assets SET technical_metadata = ... WHERE id = ...
Updated(rows, id, event) ==
    [i \in 1..Len(rows) |->
        IF rows[i].id = id
        THEN AssetRow(id, rows[i].connector_id, EventMeta(event))
        ELSE rows[i]]

\* INSERT INTO assets ... with a fresh id
Inserted(rows, event) ==
    Append(rows, AssetRow(Len(rows) + 1, event.connector_id, EventMeta(event)))

\* the write the decision recommends: nothing for a skip or a raised
\* decision, an update of the asset found, an insert when none was found
Written(rows, event, existing, decision) ==
    IF decision.k # "return" \/ ~decision.update THEN rows
    ELSE IF existing.t = "asset" THEN Updated(rows, existing.id, event)
    ELSE Inserted(rows, event)

\* the key of an event and of a row
EventKey(event) == <<event.connector_id, normalize_path(event.storage_path)>>
RowKey(row) == <<row.connector_id, normalize_path(StoredLocation(row))>>

Keys == {EventKey(e) : e \in Events}

NoFingerprint == [file_hash |-> PyNone, schema_hash |-> PyNone]
NothingSeen == [k \in Keys |-> NoFingerprint]

StoreQuiet == assetsTable = <<>> /\ workers = <<>> /\ latest = NothingSeen
(***************************************************************************)
(* airflow/utils/email_notifier.py                                         *)
(***************************************************************************)
MaxDiscoveries == 2
MaxRuns == 2

\* a data_discovery row: discovered within the last 20 minutes, marked
\* (notification_sent_at not NULL), and whether its table row can be built
\* (file_metadata parses, discovered_at is a datetime)
Discovery(fresh, notified, renderable) ==
    [fresh |-> fresh, notification_sent_at |-> notified, renderable |-> renderable]

\* the SELECT of get_new_discoveries over rows i, i-1, ..., 1: within the
\* window and notification_sent_at IS NULL, newest first
RECURSIVE SelectNew(_, _)
SelectNew(rows, i) ==
    IF i = 0 THEN <<>>
    ELSE (IF rows[i].fresh /\ ~rows[i].notification_sent_at THEN <<i>> ELSE <<>>)
         \o SelectNew(rows, i - 1)

get_new_discoveries(rows) == SelectNew(rows, Len(rows))

\* UPDATE data_discovery SET notification_sent_at = NOW() WHERE id IN (...)
update_notification_status(rows, discovery_ids) ==
    [i \in 1..Len(rows) |->
        IF \E k \in 1..Len(discovery_ids) : discovery_ids[k] = i
        THEN [rows[i] EXCEPT !.notification_sent_at = TRUE]
        ELSE rows[i]]

\* [email.strip() for email in notification_recipients if email.strip()]
RECURSIVE Recipients(_)
Recipients(config) ==
    IF config = <<>> THEN <<>>
    ELSE (IF Strip(Head(config)) # <<>> THEN <<Strip(Head(config))>> ELSE <<>>)
         \o Recipients(Tail(config))

RecipientConfigs ==
    {<<>>, <<<<" ">>>>, <<<<"g">>>>, <<<<" ">>, <<"g", " ">>>>}

\* building the body raises when a listed discovery cannot be rendered
BuildRaises(rows, discovery_ids) ==
    \E k \in 1..Len(discovery_ids) : ~rows[discovery_ids[k]].renderable

\* what the SMTP session does: the message is accepted and the session
\* closed, the connection, login or send is refused, or the message is
\* accepted and quit() raises
SmtpOutcomes == {"ok", "refused", "quit_failed"}

\* the message reached the server
Delivered(smtp) == smtp \in {"ok", "quit_failed"}

\* variant that goes on to the status update whatever the session did
AfterSendSwallow(smtp) == "sent"

\* lines 151-168: any exception of the session leaves through the except
\* clause, which re-raises
AfterSend(smtp) == IF smtp = "ok" THEN "sent" ELSE "raised"

\* lines 173-181: the position after the selection
AfterSelect(discoveries, recipients) ==
    IF discoveries = <<>> THEN "returned"
    ELSE IF recipients = <<>> THEN "returned"
    ELSE "selected"

Notifier(pc, discoveries, config, runs) ==
    [pc |-> pc, discoveries |-> discoveries, config |-> config, runs |-> runs]

NotifierIdle == Notifier("idle", <<>>, <<>>, 1)

NotifierQuiet == data_discovery = <<>> /\ notifier = NotifierIdle /\ outbox = <<>>

(***************************************************************************)
(* The reconciler as a state machine: one pending call, then its outcome   *)
(***************************************************************************)
RcIdle ==
    [existing |-> NoAsset, new_file_hash |-> Str("h1"), new_schema_hash |-> Str("h1")]

InitReconcile ==
    /\ rcIn \in [existing : {NoAsset} \cup Assets,
                 new_file_hash : {Str(h) : h \in NewHashes},
                 new_schema_hash : {Str(h) : h \in NewHashes}]
    /\ rcOut = Pending
    /\ sqlIn = SqlIdle
    /\ sqlOut = SqlPending
    /\ fzIn = FzIdle
    /\ fzOut = FzPending
    /\ infIn = InfIdle
    /\ infOut = InfPending
    /\ pathIn = PathIdle
    /\ pathOut = PathPending
    /\ DetectQuiet /\ StoreQuiet /\ NotifierQuiet

Reconcile ==
    /\ rcOut.k = "pending"
    /\ rcOut' = should_update_or_insert(rcIn.existing, rcIn.new_file_hash,
                                        rcIn.new_schema_hash)
    /\ UNCHANGED <<rcIn, sqlIn, sqlOut, fzIn, fzOut, infIn, infOut, pathIn, pathOut>>
    /\ UNCHANGED <<detectVars, storeVars, notifierVars>>

NextReconcile == Reconcile

SpecReconcile == InitReconcile /\ [][NextReconcile]_vars

(***************************************************************************)
(* The extractor as a state machine: one pending call, then its outcome    *)
(***************************************************************************)
InitSql ==
    /\ sqlIn \in SqlInputs
    /\ sqlOut = SqlPending
    /\ rcIn = RcIdle
    /\ rcOut = Pending
    /\ fzIn = FzIdle
    /\ fzOut = FzPending
    /\ infIn = InfIdle
    /\ infOut = InfPending
    /\ pathIn = PathIdle
    /\ pathOut = PathPending
    /\ DetectQuiet /\ StoreQuiet /\ NotifierQuiet

ExtractLineage ==
    /\ sqlOut.k = "pending"
    /\ sqlOut' = extract_lineage(sqlIn)
    /\ UNCHANGED <<sqlIn, rcIn, rcOut, fzIn, fzOut, infIn, infOut, pathIn, pathOut>>
    /\ UNCHANGED <<detectVars, storeVars, notifierVars>>

NextSql == ExtractLineage

SpecSql == InitSql /\ [][NextSql]_vars

(***************************************************************************)
(* The matcher as a state machine: one pending call, then its outcome      *)
(***************************************************************************)
InitFuzzy ==
    /\ fzIn \in [column1 : Names, column2 : Names, threshold : Thresholds]
    /\ fzOut = FzPending
    /\ rcIn = RcIdle
    /\ rcOut = Pending
    /\ sqlIn = SqlIdle
    /\ sqlOut = SqlPending
    /\ infIn = InfIdle
    /\ infOut = InfPending
    /\ pathIn = PathIdle
    /\ pathOut = PathPending
    /\ DetectQuiet /\ StoreQuiet /\ NotifierQuiet

FuzzyColumnMatch ==
    /\ fzOut.k = "pending"
    /\ fzOut' = fuzzy_column_match(fzIn.column1, fzIn.column2, fzIn.threshold)
    /\ UNCHANGED <<fzIn, rcIn, rcOut, sqlIn, sqlOut, infIn, infOut, pathIn, pathOut>>
    /\ UNCHANGED <<detectVars, storeVars, notifierVars>>

NextFuzzy == FuzzyColumnMatch

SpecFuzzy == InitFuzzy /\ [][NextFuzzy]_vars

(***************************************************************************)
(* The inferrer as a state machine: one pending call, then its outcome     *)
(***************************************************************************)
InitInfer ==
    /\ infIn \in [source_columns : SeqsUpTo(InferColumns, MaxCols),
                  target_columns : SeqsUpTo(InferColumns, MaxCols),
                  min_matching_ratio : MinRatios]
    /\ infOut = InfPending
    /\ rcIn = RcIdle
    /\ rcOut = Pending
    /\ sqlIn = SqlIdle
    /\ sqlOut = SqlPending
    /\ fzIn = FzIdle
    /\ fzOut = FzPending
    /\ pathIn = PathIdle
    /\ pathOut = PathPending
    /\ DetectQuiet /\ StoreQuiet /\ NotifierQuiet

InferRelationships ==
    /\ infOut.k = "pending"
    /\ infOut' = infer_relationships_ml(infIn.source_columns, infIn.target_columns,
                                        infIn.min_matching_ratio)
    /\ UNCHANGED <<infIn, rcIn, rcOut, sqlIn, sqlOut, fzIn, fzOut, pathIn, pathOut>>
    /\ UNCHANGED <<detectVars, storeVars, notifierVars>>

NextInfer == InferRelationships

SpecInfer == InitInfer /\ [][NextInfer]_vars

(***************************************************************************)
(* The path normaliser as a state machine: one pending call, its outcome   *)
(***************************************************************************)
InitPath ==
    /\ pathIn \in PathInputs
    /\ pathOut = PathPending
    /\ DetectQuiet /\ StoreQuiet /\ NotifierQuiet
    /\ rcIn = RcIdle
    /\ rcOut = Pending
    /\ sqlIn = SqlIdle
    /\ sqlOut = SqlPending
    /\ fzIn = FzIdle
    /\ fzOut = FzPending
    /\ infIn = InfIdle
    /\ infOut = InfPending

ParseStoragePath ==
    /\ pathOut.k = "pending"
    /\ pathIn.op = "parse_storage_path"
    /\ pathOut' = parse_storage_path(pathIn.path, pathIn.account_name, pathIn.container)
    /\ UNCHANGED <<pathIn, rcIn, rcOut, sqlIn, sqlOut, fzIn, fzOut, infIn, infOut>>
    /\ UNCHANGED <<detectVars, storeVars, notifierVars>>

AzureBlobParserParse ==
    /\ pathOut.k = "pending"
    /\ pathIn.op = "AzureBlobParser.parse"
    /\ pathOut' = BlobParse(pathIn.path, pathIn.account_name, pathIn.container)
    /\ UNCHANGED <<pathIn, rcIn, rcOut, sqlIn, sqlOut, fzIn, fzOut, infIn, infOut>>
    /\ UNCHANGED <<detectVars, storeVars, notifierVars>>

GetStorageLocationJson ==
    /\ pathOut.k = "pending"
    /\ pathIn.op = "get_storage_location_json"
    /\ pathOut' = get_storage_location_json(
                      pathIn.account_name, pathIn.container, pathIn.path,
                      pathIn.connection_string, pathIn.env, pathIn.PARSER_AVAILABLE)
    /\ UNCHANGED <<pathIn, rcIn, rcOut, sqlIn, sqlOut, fzIn, fzOut, infIn, infOut>>
    /\ UNCHANGED <<detectVars, storeVars, notifierVars>>

NextPath == ParseStoragePath \/ AzureBlobParserParse \/ GetStorageLocationJson

SpecPath == InitPath /\ [][NextPath]_vars

(***************************************************************************)
(* detect_transformation_pattern as a state machine                        *)
(***************************************************************************)
CoreQuiet ==
    /\ rcIn = RcIdle /\ rcOut = Pending
    /\ sqlIn = SqlIdle /\ sqlOut = SqlPending
    /\ fzIn = FzIdle /\ fzOut = FzPending
    /\ infIn = InfIdle /\ infOut = InfPending
    /\ pathIn = PathIdle /\ pathOut = PathPending

InitDetect ==
    /\ dtIn \in [source_col : DetectNames, target_col : DetectNames]
    /\ dtOut = DtPending
    /\ CoreQuiet /\ StoreQuiet /\ NotifierQuiet

DetectTransformationPattern ==
    /\ dtOut = DtPending
    /\ dtOut' = detect_transformation_pattern(dtIn.source_col, dtIn.target_col)
    /\ UNCHANGED <<dtIn, coreVars, storeVars, notifierVars>>

NextDetect == DetectTransformationPattern

SpecDetect == InitDetect /\ [][NextDetect]_vars

(***************************************************************************)
(* One lookup against a table other writers have filled                    *)
(***************************************************************************)
InitLookup ==
    /\ assetsTable \in Tables
    /\ workers \in {<<Worker("idle", e, NoAsset, Pending)>> : e \in Events}
    /\ latest = NothingSeen
    /\ CoreQuiet /\ DetectQuiet /\ NotifierQuiet

\* existing_asset = check_asset_exists(db, connector_id, storage_path)
Lookup(w) ==
    /\ workers[w].pc = "idle"
    /\ workers' = [workers EXCEPT
                     ![w].pc = "looked",
                     ![w].existing = Looked(assetsTable, workers[w].event)]
    /\ UNCHANGED <<assetsTable, latest, coreVars, detectVars, notifierVars>>

\* should_update_or_insert(existing_asset, file_hash, schema_hash)
Decide(w) ==
    /\ workers[w].pc = "looked"
    /\ workers' = [workers EXCEPT
                     ![w].pc = "decided",
                     ![w].decision = Decided(workers[w].existing, workers[w].event)]
    /\ UNCHANGED <<assetsTable, latest, coreVars, detectVars, notifierVars>>

NextLookup == \E w \in DOMAIN workers : Lookup(w) \/ Decide(w)

SpecLookup == InitLookup /\ [][NextLookup]_vars

(***************************************************************************)
(* Two discovery workers without a lock around lookup, decide and write    *)
(***************************************************************************)
InitRace ==
    /\ assetsTable = <<>>
    /\ workers \in {<<Worker("idle", e1, NoAsset, Pending),
                      Worker("idle", e2, NoAsset, Pending)>> :
                        e1 \in Events, e2 \in Events}
    /\ latest = NothingSeen
    /\ CoreQuiet /\ DetectQuiet /\ NotifierQuiet

\* the worker executes the recommended write
Write(w) ==
    /\ workers[w].pc = "decided"
    /\ assetsTable' = Written(assetsTable, workers[w].event,
                              workers[w].existing, workers[w].decision)
    /\ workers' = [workers EXCEPT ![w].pc = "done"]
    /\ UNCHANGED <<latest, coreVars, detectVars, notifierVars>>

NextRace == \E w \in DOMAIN workers : Lookup(w) \/ Decide(w) \/ Write(w)

SpecRace == InitRace /\ [][NextRace]_vars

(***************************************************************************)
(* Discovery events handled one at a time: lookup, decide and write as one *)
(* serialised step                                                         *)
(***************************************************************************)
InitSerial ==
    /\ assetsTable = <<>>
    /\ workers = <<>>
    /\ latest = NothingSeen
    /\ CoreQuiet /\ DetectQuiet /\ NotifierQuiet

\* the record of a handled event
Handled(rows, event) ==
    Worker("done", event, Looked(rows, event), Decided(Looked(rows, event), event))

Discover(event) ==
    /\ Len(workers) < MaxEvents
    /\ workers' = Append(workers, Handled(assetsTable, event))
    /\ assetsTable' = Written(assetsTable, event, Looked(assetsTable, event),
                              Decided(Looked(assetsTable, event), event))
    /\ latest' = [latest EXCEPT ![EventKey(event)] =
                     [file_hash |-> event.new_file_hash,
                      schema_hash |-> event.new_schema_hash]]
    /\ UNCHANGED <<coreVars, detectVars, notifierVars>>

NextSerial == \E event \in Events : Discover(event)

SpecSerial == InitSerial /\ [][NextSerial]_vars

(***************************************************************************)
(* The notifier: runs of notify_new_discoveries while discoveries arrive   *)
(* and age                                                                 *)
(***************************************************************************)
InitNotifier ==
    /\ data_discovery = <<>>
    /\ notifier \in {Notifier("idle", <<>>, c, 1) : c \in RecipientConfigs}
    /\ outbox = <<>>
    /\ CoreQuiet /\ DetectQuiet /\ StoreQuiet

\* the discovery side inserts a row
Discovered ==
    /\ Len(data_discovery) < MaxDiscoveries
    /\ \E renderable \in BOOLEAN :
          data_discovery' = Append(data_discovery, Discovery(TRUE, FALSE, renderable))
    /\ UNCHANGED <<notifier, outbox, coreVars, detectVars, storeVars>>

\* a row leaves the 20-minute window
Aged ==
    /\ \E i \in 1..Len(data_discovery) :
          /\ data_discovery[i].fresh
          /\ data_discovery' = [data_discovery EXCEPT ![i].fresh = FALSE]
    /\ UNCHANGED <<notifier, outbox, coreVars, detectVars, storeVars>>

\* lines 173-181: the selection, or the exception of its query
GetNewDiscoveries ==
    /\ notifier.pc = "idle"
    /\ \E query_fails \in BOOLEAN :
          notifier' =
              IF query_fails THEN [notifier EXCEPT !.pc = "raised"]
              ELSE [notifier EXCEPT
                      !.discoveries = get_new_discoveries(data_discovery),
                      !.pc = AfterSelect(get_new_discoveries(data_discovery),
                                         Recipients(notifier.config))]
    /\ UNCHANGED <<data_discovery, outbox, coreVars, detectVars, storeVars>>

\* lines 83-149
BuildEmail ==
    /\ notifier.pc = "selected"
    /\ notifier' = [notifier EXCEPT !.pc =
                       IF BuildRaises(data_discovery, notifier.discoveries)
                       THEN "raised" ELSE "built"]
    /\ UNCHANGED <<data_discovery, outbox, coreVars, detectVars, storeVars>>

\* lines 151-159
SendEmail ==
    /\ notifier.pc = "built"
    /\ \E smtp \in SmtpOutcomes :
          /\ outbox' = IF Delivered(smtp)
                       THEN Append(outbox, notifier.discoveries) ELSE outbox
          /\ notifier' = [notifier EXCEPT !.pc = AfterSend(smtp)]
    /\ UNCHANGED <<data_discovery, coreVars, detectVars, storeVars>>

\* lines 163-164 and 52-75: the UPDATE commits, or raises and marks nothing
UpdateNotificationStatus ==
    /\ notifier.pc = "sent"
    /\ \E update_fails \in BOOLEAN :
          IF update_fails
          THEN /\ notifier' = [notifier EXCEPT !.pc = "raised"]
               /\ UNCHANGED data_discovery
          ELSE /\ notifier' = [notifier EXCEPT !.pc = "returned"]
               /\ data_discovery' =
                      update_notification_status(data_discovery, notifier.discoveries)
    /\ UNCHANGED <<outbox, coreVars, detectVars, storeVars>>

\* the scheduler starts the next run
NextRun ==
    /\ notifier.pc \in {"returned", "raised"}
    /\ notifier.runs < MaxRuns
    /\ notifier' = [notifier EXCEPT !.pc = "idle", !.discoveries = <<>>,
                                    !.runs = notifier.runs + 1]
    /\ UNCHANGED <<data_discovery, outbox, coreVars, detectVars, storeVars>>

NextNotifier ==
    \/ Discovered
    \/ Aged
    \/ GetNewDiscoveries
    \/ BuildEmail
    \/ SendEmail
    \/ UpdateNotificationStatus
    \/ NextRun

SpecNotifier == InitNotifier /\ [][NextNotifier]_vars

(***************************************************************************)
(* Reconciler properties                                                   *)
(***************************************************************************)
RcDone == rcOut.k # "pending"

\* the schema_hash entry of the existing asset's bag, as stored
StoredSchemaHash(asset) ==
    IF asset.technical_metadata.t = "none"
    THEN Absent ELSE asset.technical_metadata.schema_hash

\* C1: with no existing asset the call returns (insert/update = true,
\* schemaChanged = false), whatever the new content and schema hashes are.
C1_NoExistingInserts ==
    (RcDone /\ rcIn.existing.t = "none") => rcOut = Returned(TRUE, FALSE)

C1_Witness ==
    /\ rcIn.existing.t = "none"
    /\ rcIn.new_file_hash # rcIn.new_schema_hash
    /\ rcOut = Returned(TRUE, FALSE)

\* C2: with an existing asset whose stored schema hash differs from the new
\* schema hash the call returns (update = true, schemaChanged = true).
C2_SchemaDiffersUpdates ==
    (RcDone /\ rcIn.existing.t = "asset"
       /\ StoredSchemaHash(rcIn.existing) # rcIn.new_schema_hash)
    => rcOut = Returned(TRUE, TRUE)

\* C3: with an existing asset whose stored schema hash equals the new schema
\* hash the call returns (skip, schemaChanged = false), whether or not the
\* content hash differs.
C3_SchemaEqualSkips ==
    (RcDone /\ rcIn.existing.t = "asset"
       /\ StoredSchemaHash(rcIn.existing) = rcIn.new_schema_hash)
    => rcOut = Returned(FALSE, FALSE)

(***************************************************************************)
(* SQL extractor properties                                                *)
(***************************************************************************)
SqlDone == sqlOut.k # "pending"

\* the structured parser is unavailable, returned nothing, or raised
ParserFailed == ~sqlIn.available \/ sqlIn.outcome \in {"raise", "none"}

\* C4: extract_lineage never raises: every call returns a result, and a
\* result produced after the structured parser was unavailable, returned
\* nothing or raised has extractionMethod = regex_fallback and an empty
\* columnLineage.
C4_NeverRaises ==
    SqlDone =>
        /\ sqlOut.k = "return"
        /\ ParserFailed =>
              /\ sqlOut.extraction_method = "regex_fallback"
              /\ sqlOut.column_lineage = <<>>

C4_Witness ==
    /\ SqlDone
    /\ sqlIn.available /\ sqlIn.outcome = "raise"
    /\ sqlOut.k = "return"
    /\ sqlOut.extraction_method = "regex_fallback"
    /\ sqlOut.target_table = Str("T1")

ExprLabel(e) == IF e.cls = "Alias" THEN e.alias ELSE e.name

\* C6: for a structurally parsed INSERT ... SELECT whose target column list
\* and SELECT output list both have length n, columnLineage has exactly n
\* entries, the i-th pairing the i-th SELECT expression with the i-th target
\* column; when the lengths differ columnLineage is empty while targetTable
\* and confidence 0.9 are still returned.
C6_InsertPositional ==
    (/\ SqlDone /\ sqlOut.k = "return"
     /\ sqlOut.extraction_method = "sql_parsing"
     /\ sqlIn.ast.isa = {"Insert"} /\ sqlIn.ast.has_select
     /\ sqlIn.ast.this = <<"Schema", "Table">>
     /\ \A i \in 1..Len(sqlIn.ast.expression_expressions) :
            sqlIn.ast.expression_expressions[i].cls = "Column")
    =>
    LET tc == sqlIn.ast.expression_expressions
        se == sqlIn.ast.select_expressions
        cl == sqlOut.column_lineage
    IN  /\ sqlOut.target_table = Str(sqlIn.ast.this_name)
        /\ sqlOut.confidence_score = Rat(9, 10)
        /\ IF Len(tc) = Len(se)
           THEN /\ Len(cl) = Len(tc)
                /\ \A i \in 1..Len(cl) :
                      /\ cl[i].target_column = tc[i].name
                      /\ cl[i].source_column = ExprLabel(se[i])
           ELSE cl = <<>>

(***************************************************************************)
(* Fuzzy matcher properties                                                *)
(***************************************************************************)
FzDone == fzOut.k # "pending"

\* C8: for every pair of names and every threshold, isMatch is true exactly
\* when the returned score is >= the threshold, also on the exact-match and
\* separator-stripped paths.
C8_MatchIffScoreAtLeastThreshold ==
    FzDone => (fzOut.is_match <=> RLeq(fzIn.threshold, fzOut.similarity))

\* the score the precedence rules give two names: 1.0 when equal after
\* trimming and lower-casing, else 0.95 when equal without separators, else
\* the edit-similarity ratio floored at 0.85 (substring) and 0.9 (cleaned equal)
PrecedenceScore(column1, column2) ==
    LET l1 == Strip(Lower(column1))
        l2 == Strip(Lower(column2))
        n1 == StripSeparators(l1)
        n2 == StripSeparators(l2)
        floor85 == IF Contains(n1, n2) \/ Contains(n2, n1)
                   THEN Rat(85, 100) ELSE Rat(0, 1)
        floor90 == IF Clean(l1) = Clean(l2) THEN Rat(9, 10) ELSE Rat(0, 1)
    IN  IF l1 = l2 THEN Rat(1, 1)
        ELSE IF n1 = n2 THEN Rat(95, 100)
        ELSE RMax(Ratio(l1, l2), RMax(floor85, floor90))

ScoreInUnitInterval(sc) == RLeq(Rat(0, 1), sc) /\ RLeq(sc, Rat(1, 1))

\* C9 as stated: the score follows the precedence rules for every pair of
\* names and lies within [0, 1].
C9_Precedence ==
    FzDone =>
        /\ fzOut.similarity = PrecedenceScore(fzIn.column1, fzIn.column2)
        /\ ScoreInUnitInterval(fzOut.similarity)

\* C9 amended: the score follows the precedence rules when both names are
\* non-empty; when either name is empty the result is (no match, 0.0); the
\* score lies within [0, 1].
C9_PrecedenceNonEmpty ==
    FzDone =>
        /\ IF fzIn.column1 = <<>> \/ fzIn.column2 = <<>>
           THEN fzOut.similarity = Rat(0, 1) /\ ~fzOut.is_match
           ELSE fzOut.similarity = PrecedenceScore(fzIn.column1, fzIn.column2)
        /\ ScoreInUnitInterval(fzOut.similarity)

\* a pair decided by the substring floor: ratio below 0.85, score 0.85
C9_Witness ==
    /\ FzDone
    /\ StripSeparators(fzIn.column1) # <<>>
    /\ StripSeparators(fzIn.column2) # <<>>
    /\ RLess(Ratio(Strip(Lower(fzIn.column1)), Strip(Lower(fzIn.column2))),
             Rat(85, 100))
    /\ fzOut.similarity = Rat(85, 100)

(***************************************************************************)
(* Lineage inference properties                                            *)
(***************************************************************************)
InfDone == infOut.k # "pending"

\* the matcher's score of a pair at the internal threshold
Score(a, b) == fuzzy_column_match(a, b, Rat(6, 10)).similarity

\* no source column scores >= 0.6 against any target column
NoPairMatches ==
    \A i \in 1..Len(infIn.source_columns), j \in 1..Len(infIn.target_columns) :
        RLess(Score(infIn.source_columns[i], infIn.target_columns[j]), Rat(6, 10))

\* confidence = 0.6 * matchRatio + 0.4 * avgMatchedScore with
\* matchRatio = matchCount / max(n_source, n_target), plus 0.1 capped at 0.95
\* when matchRatio >= minMatchRatio; 0.0 and no lineage with zero matches;
\* always within [0, 1]
ConfidenceLaw(n_source, n_target) ==
    LET cl == infOut.column_lineage
        mc == Len(cl)
        matchRatio == Rat(mc, IntMax(n_source, n_target))
        avgMatchedScore == RMul(SumScores(cl), Rat(1, mc))
        base == RAdd(RMul(Rat(6, 10), matchRatio), RMul(Rat(4, 10), avgMatchedScore))
    IN  /\ NoPairMatches => (cl = <<>> /\ infOut.confidence = Rat(0, 1))
        /\ mc = 0 => infOut.confidence = Rat(0, 1)
        /\ mc > 0 =>
              infOut.confidence =
                  IF RLeq(infIn.min_matching_ratio, matchRatio)
                  THEN RMin(Rat(95, 100), RAdd(base, Rat(1, 10)))
                  ELSE base
        /\ ScoreInUnitInterval(infOut.confidence)

\* C7 as stated: the confidence law with matchRatio taken over all the
\* source and target columns passed in.
C7_Confidence ==
    InfDone => ConfidenceLaw(Len(infIn.source_columns), Len(infIn.target_columns))

\* C7 amended: the confidence law with matchRatio taken over the source and
\* target columns that have a non-empty name.
C7_ConfidenceOverNamed ==
    InfDone => ConfidenceLaw(Len(NamedOnly(infIn.source_columns)),
                             Len(NamedOnly(infIn.target_columns)))

\* a call with an unnamed column whose bonus is cut by the 0.95 cap
C7_Witness ==
    /\ InfDone
    /\ \E i \in 1..Len(infIn.source_columns) : infIn.source_columns[i] = <<>>
    /\ Len(infOut.column_lineage) = 1
    /\ infOut.confidence = Rat(95, 100)

\* the entries from the k-th on are what the greedy pass yields for the
\* remaining sources src: a source with no unconsumed target scoring >= 0.6
\* yields nothing, any other is paired with the best such target, the first
\* in target order among equals, which is then consumed
RECURSIVE GreedyFrom(_, _, _, _, _)
GreedyFrom(src, tgt, cl, k, consumed) ==
    IF src = <<>> THEN k = Len(cl) + 1
    ELSE LET sc == Head(src)
             cands == {j \in 1..Len(tgt) :
                          /\ tgt[j] \notin consumed
                          /\ RLeq(Rat(6, 10), Score(sc, tgt[j]))}
         IN  IF cands = {} THEN GreedyFrom(Tail(src), tgt, cl, k, consumed)
             ELSE /\ k <= Len(cl)
                  /\ cl[k].source_column = sc
                  /\ \E j \in cands :
                        /\ cl[k].target_column = tgt[j]
                        /\ cl[k].similarity_score = Score(sc, tgt[j])
                        /\ \A o \in cands :
                              /\ RLeq(Score(sc, tgt[o]), Score(sc, tgt[j]))
                              /\ o < j => RLess(Score(sc, tgt[o]), Score(sc, tgt[j]))
                  /\ GreedyFrom(Tail(src), tgt, cl, k + 1,
                                consumed \cup {cl[k].target_column})

\* C10: matching is greedy in source order, each source taking the
\* highest-scoring unconsumed target with score >= 0.6 (the first on ties);
\* no target appears in two entries, every entry scores >= 0.6, and there
\* are at most min(|sourceColumns|, |targetColumns|) entries.
C10_Greedy ==
    InfDone =>
        LET cl == infOut.column_lineage
        IN  /\ GreedyFrom(infIn.source_columns, infIn.target_columns, cl, 1, {})
            /\ \A i, j \in 1..Len(cl) :
                  i # j => cl[i].target_column # cl[j].target_column
            /\ \A i \in 1..Len(cl) : RLeq(Rat(6, 10), cl[i].similarity_score)
            /\ Len(cl) <= Len(infIn.source_columns)
            /\ Len(cl) <= Len(infIn.target_columns)

\* the first source took, at 2/3, the target the second source equals
C10_Witness ==
    /\ InfDone
    /\ Len(infIn.source_columns) = 2
    /\ Len(infOut.column_lineage) = 1
    /\ infOut.column_lineage[1].source_column = infIn.source_columns[1]
    /\ infOut.column_lineage[1].similarity_score = Rat(2, 3)
    /\ Score(infIn.source_columns[2], infOut.column_lineage[1].target_column) = Rat(1, 1)

(***************************************************************************)
(* Path normaliser properties                                              *)
(***************************************************************************)
PathDone == pathOut.k # "pending"

\* no registered parser accepts the raw path, and both hints are given
OnlyHintsApply ==
    /\ pathIn.op = "parse_storage_path"
    /\ ~AbfsCanParse(pathIn.path)
    /\ ~BlobCanParse(pathIn.path)
    /\ Given(pathIn.account_name)
    /\ Given(pathIn.container)

\* the returned location is a blob location under the hinted account and
\* container with the given path
HintedBlob(path) ==
    /\ pathOut.k = "return"
    /\ pathOut.type = "azure_blob"
    /\ pathOut.account_name = pathIn.account_name.s
    /\ pathOut.container = pathIn.container.s
    /\ pathOut.path = path

\* C11 as stated: when no parser accepts the raw path but both hints are
\* supplied, parse_storage_path returns a blob location whose account and
\* container are the hints and whose path is the raw string.
C11_HintFallback ==
    (PathDone /\ OnlyHintsApply) => HintedBlob(pathIn.path)

\* C11 amended: when no parser accepts a non-empty raw path but both hints
\* are non-empty, parse_storage_path returns a blob location whose account
\* and container are the hints and whose path is the raw string with its
\* surrounding whitespace removed; an empty raw path is rejected.
C11_HintFallbackTrimmed ==
    (PathDone /\ OnlyHintsApply) =>
        IF pathIn.path = <<>> THEN pathOut.k = "raise"
        ELSE HintedBlob(Strip(pathIn.path))

\* the fallback returned a location for a padded raw path
C11_Witness ==
    /\ PathDone
    /\ OnlyHintsApply
    /\ pathOut.k = "return"
    /\ pathOut.path # <<>>
    /\ pathOut.path # pathIn.path

NoOuterSlash(path) == path = <<>> \/ (Head(path) # "/" /\ path[Len(path)] # "/")

\* C12: in every location returned by parse_storage_path the path has no
\* leading and no trailing slash.
C12_NoOuterSlash ==
    (PathDone /\ pathIn.op = "parse_storage_path" /\ pathOut.k = "return")
        => NoOuterSlash(pathOut.path)

\* parsing loc's full_url with the same hints gives the same type, account,
\* container and path
SameAgain(loc, again) ==
    /\ again.k = "return"
    /\ again.type = loc.type
    /\ again.account_name = loc.account_name
    /\ again.container = loc.container
    /\ again.path = loc.path

\* C13: for every raw path and hints that parse_storage_path accepts,
\* parsing the returned location's full_url with the same hints yields the
\* same type, account, container and path.
C13_Idempotent ==
    (PathDone /\ pathIn.op = "parse_storage_path" /\ pathOut.k = "return")
        => SameAgain(pathOut,
                     parse_storage_path(pathOut.full_url, pathIn.account_name,
                                        pathIn.container))

\* an AzureBlobParser.parse call on a string that is not a blob URL
BareCall ==
    /\ pathIn.op = "AzureBlobParser.parse"
    /\ ~BLOB_URL_PATTERN(Strip(pathIn.path)).ok

\* the string was split at its first "/" into container and path (a string
\* without "/" is all path, an empty container reads "unknown")
SplitAtFirstSlash(str, slash) ==
    IF slash = 0
    THEN pathOut.path = str /\ pathOut.container = Unknown
    ELSE /\ pathOut.path = SubSeq(str, slash + 1, Len(str))
         /\ pathOut.container = OrUnknown(Hint(SubSeq(str, 1, slash - 1)))

AbfsInput == ABFS_PATTERN(pathIn.path).ok

\* C15: every input matching scheme://container@account.dfs.core.windows.net/path
\* (abfs or abfss, any case) is returned as a data-lake location, and the
\* location built by parse_storage_path and by get_storage_location_json has
\* connection method service_principal and carries no connection string.
C15_DataLakePrincipalOnly ==
    (PathDone /\ AbfsInput
     /\ pathIn.op \in {"parse_storage_path", "get_storage_location_json"})
    =>
        /\ pathOut.k = "return"
        /\ pathOut.type = "azure_datalake"
        /\ pathOut.connection.method = "service_principal"
        /\ ~Given(pathOut.connection.connection_string)

(***************************************************************************)
(* Reconciler, extractor and matcher properties, continued                 *)
(***************************************************************************)
\* C16: the reconciler is total: for every existing asset record and every
\* new hash pair should_update_or_insert returns a decision and never raises.
C16_ReconcilerTotal == RcDone => rcOut.k = "return"

FallbackResult ==
    SqlDone /\ sqlOut.k = "return" /\ sqlOut.extraction_method = "regex_fallback"

\* C17: a regex-fallback result has confidence 0.5 exactly when a table name
\* was recovered (targetTable non-null or sourceTables non-empty) and 0.3
\* exactly when none was.
C17_FallbackConfidence ==
    FallbackResult =>
        LET recovered == Truthy(sqlOut.target_table) \/ sqlOut.source_tables # {}
        IN  /\ sqlOut.confidence_score = Rat(5, 10) <=> recovered
            /\ sqlOut.confidence_score = Rat(3, 10) <=> ~recovered

\* a structurally parsed CREATE ... AS SELECT or CREATE VIEW
ParsedCreateSelect ==
    /\ SqlDone
    /\ sqlIn.available /\ sqlIn.outcome = "ast"
    /\ sqlIn.ast.isa \cap {"Create", "CreateView"} # {}
    /\ sqlIn.ast.has_select

\* the entry C18 describes for a SELECT output expression
ExpectedCreateEntry(e) ==
    Lineage(IF e.cls = "Alias" /\ e.inner = "Agg" THEN "agg" ELSE e.name,
            ExprLabel(e),
            IF (e.cls = "Alias" /\ e.inner = "Agg") \/ e.cls = "Func"
            THEN "aggregate" ELSE "pass_through")

\* C18: for a structurally parsed CREATE ... AS SELECT or CREATE VIEW the
\* column lineage has one entry per SELECT output expression, its target the
\* alias (or the expression's own name), its transformation aggregate for an
\* aggregate expression and pass_through otherwise.
C18_CreateEntryPerExpression ==
    ParsedCreateSelect =>
        /\ sqlOut.k = "return"
        /\ Len(sqlOut.column_lineage) = Len(sqlIn.ast.select_expressions)
        /\ \A i \in 1..Len(sqlOut.column_lineage) :
              LET e == ExpectedCreateEntry(sqlIn.ast.select_expressions[i])
              IN  /\ sqlOut.column_lineage[i].target_column = e.target_column
                  /\ sqlOut.column_lineage[i].transformation = e.transformation

\* C19: a structurally parsed CREATE VIEW is classified CREATE_VIEW, not
\* CREATE, with the view name as targetTable and confidence 0.9.
C19_CreateViewClass ==
    (SqlDone /\ sqlIn.available /\ sqlIn.outcome = "ast" /\ sqlIn.is_view) =>
        /\ sqlOut.k = "return"
        /\ sqlOut.extraction_method = "sql_parsing"
        /\ sqlOut.query_type = Str("CREATE_VIEW")
        /\ sqlOut.confidence_score = Rat(9, 10)
        /\ sqlOut.target_table =
              _extract_table_name(sqlIn.ast.this, sqlIn.ast.this_name)

customer_name ==
    <<"c", "u", "s", "t", "o", "m", "e", "r", "_", "n", "a", "m", "e">>
cust_nm == <<"c", "u", "s", "t", "_", "n", "m">>

CustomerPair == FzDone /\ fzIn.column1 = customer_name /\ fzIn.column2 = cust_nm

\* C20 as stated: fuzzy_column_match("customer_name", "cust_nm") scores below
\* 0.6, is no match at threshold 0.6, and infer_relationships_ml emits no
\* entry for the pair.
C20_CustomerPairBelowThreshold ==
    CustomerPair =>
        /\ RLess(fzOut.similarity, Rat(6, 10))
        /\ fzIn.threshold = Rat(6, 10) => ~fzOut.is_match
        /\ infer_relationships_ml(<<customer_name>>, <<cust_nm>>, Rat(3, 10))
              .column_lineage = <<>>

\* C20 amended: fuzzy_column_match("customer_name", "cust_nm") scores 0.7, so
\* it is a match at every threshold up to 0.7, the internal 0.6 included, and
\* infer_relationships_ml emits one entry for the pair with score 0.7.
C20_CustomerPairScore ==
    CustomerPair =>
        /\ fzOut.similarity = Rat(7, 10)
        /\ fzOut.is_match <=> RLeq(fzIn.threshold, Rat(7, 10))
        /\ infer_relationships_ml(<<customer_name>>, <<cust_nm>>, Rat(3, 10))
              .column_lineage = <<Entry(customer_name, cust_nm, Rat(7, 10))>>

C20_Witness ==
    /\ CustomerPair
    /\ fzIn.threshold = Rat(6, 10)
    /\ fzOut.is_match
    /\ fzOut.similarity = Rat(7, 10)

\* the existing asset carries no usable schema hash in its bag
NoStoredFingerprint(asset) ==
    asset.t = "asset" /\ ~Truthy(StoredSchemaHash(asset))

\* C25: when an asset record exists for the key but its technical metadata
\* has no schema hash, should_update_or_insert reports schemaChanged = false.
C25_NoFingerprintNoSchemaChange ==
    (RcDone /\ NoStoredFingerprint(rcIn.existing))
    => (rcOut.k = "return" /\ ~rcOut.schema_changed)

\* the calls the reconciler can receive
ReconcileCalls ==
    [existing : {NoAsset} \cup Assets,
     new_file_hash : {Str(h) : h \in NewHashes},
     new_schema_hash : {Str(h) : h \in NewHashes}]

\* two calls that differ at most in the stored and the new content hashes
SameButContentHashes(a, b) ==
    /\ a.existing.t = b.existing.t
    /\ StoredSchemaHash(a.existing) = StoredSchemaHash(b.existing)
    /\ a.new_schema_hash = b.new_schema_hash

\* C26: the decision does not depend on content hashes: any other call that
\* agrees with the finished one on whether an asset exists, on its stored
\* schema hash and on the new schema hash returns the same
\* (action, schemaChanged).
C26_ContentHashIrrelevant ==
    RcDone =>
        \A other \in ReconcileCalls :
            SameButContentHashes(rcIn, other) =>
                should_update_or_insert(other.existing, other.new_file_hash,
                                        other.new_schema_hash) = rcOut

\* C29: the coverage bonus never lowers the result: whenever
\* matchRatio >= minMatchRatio the returned confidence is at least
\* 0.6 * matchRatio + 0.4 * avgMatchedScore.
C29_BonusNeverLowers ==
    (InfDone /\ Len(infOut.column_lineage) > 0) =>
        LET mc == Len(infOut.column_lineage)
            matchRatio == Rat(mc, IntMax(Len(NamedOnly(infIn.source_columns)),
                                         Len(NamedOnly(infIn.target_columns))))
            avgMatchedScore == RMul(SumScores(infOut.column_lineage), Rat(1, mc))
            base == RAdd(RMul(Rat(6, 10), matchRatio),
                         RMul(Rat(4, 10), avgMatchedScore))
        IN  RLeq(infIn.min_matching_ratio, matchRatio)
                => RLeq(base, infOut.confidence)

(***************************************************************************)
(* Transformation pattern properties                                       *)
(***************************************************************************)
DtDone == dtOut # DtPending

\* the target name contains a marker and removing it yields the source name
\* (names compared case-insensitively, as everywhere in the matcher)
MarkerRemovedGivesSource(source_col, target_col) ==
    \E i \in 1..Len(AggMarkers) :
        /\ Contains(Lower(target_col), AggMarkers[i])
        /\ Replace(Lower(target_col), AggMarkers[i]) = Lower(source_col)

\* C21: a pair is aggregate exactly when the target name contains an
\* aggregation marker and removing that marker from the target yields the
\* source name; otherwise rename when the names differ and their similarity
\* is above 0.7; otherwise pass_through.
C21_TransformationClasses ==
    DtDone =>
        dtOut = IF MarkerRemovedGivesSource(dtIn.source_col, dtIn.target_col)
                THEN "aggregate"
                ELSE IF /\ Lower(dtIn.source_col) # Lower(dtIn.target_col)
                        /\ RLess(Rat(7, 10), Ratio(Lower(dtIn.source_col),
                                                   Lower(dtIn.target_col)))
                     THEN "rename"
                     ELSE "pass_through"

(***************************************************************************)
(* Asset lookup and discovery properties                                   *)
(***************************************************************************)
\* the string between the first and the last character that is not a slash,
\* lower-cased; empty when there is none
Canon(str) ==
    LET inner == {i \in 1..Len(str) : str[i] # "/"}
    IN  IF inner = {} THEN <<>>
        ELSE LowerStr(SubSeq(str,
                             CHOOSE i \in inner : \A j \in inner : i <= j,
                             CHOOSE i \in inner : \A j \in inner : i >= j))

\* the row is an asset of the event's connector stored under the event's path
IsAssetFor(row, event) ==
    /\ row.connector_id = event.connector_id
    /\ Canon(StoredLocation(row).s) = Canon(event.storage_path.s)

HoldsAssetFor(rows, event) == \E i \in 1..Len(rows) : IsAssetFor(rows[i], event)

\* normalising a normalised path changes nothing
Idempotent(path) == normalize_path(Loc(normalize_path(path))) = normalize_path(path)

LookedUp(w) == workers[w].pc # "idle"

\* what the lookup returns is an asset for the key
FoundIsForKey(w) ==
    workers[w].existing.t = "asset"
        => /\ IsAssetFor(workers[w].existing, workers[w].event)
           /\ \E i \in 1..Len(assetsTable) : assetsTable[i] = workers[w].existing

PathsNormaliseOnce(w) ==
    /\ Idempotent(workers[w].event.storage_path)
    /\ \A i \in 1..Len(assetsTable) : Idempotent(StoredLocation(assetsTable[i]))

LookupBlind(w) ==
    \/ workers[w].event.query_fails
    \/ Canon(workers[w].event.storage_path.s) = <<>>

\* C28: check_asset_exists never raises; when the store query fails, or the
\* search path normalises to the empty string, it returns None, and the
\* following should_update_or_insert recommends an insert even when an asset
\* for that (connectorId, path) is stored.
C28_BlindLookupInserts ==
    \A w \in DOMAIN workers :
        /\ LookedUp(w) => workers[w].existing.t \in {"none", "asset"}
        /\ (LookedUp(w) /\ LookupBlind(w)) => workers[w].existing.t = "none"
        /\ (workers[w].pc = "decided" /\ LookupBlind(w))
              => workers[w].decision = Returned(TRUE, FALSE)

C28_Witness ==
    /\ Len(workers) = 1
    /\ workers[1].pc = "decided"
    /\ workers[1].event.query_fails
    /\ Canon(workers[1].event.storage_path.s) # <<>>
    /\ HoldsAssetFor(assetsTable, workers[1].event)
    /\ workers[1].decision = Returned(TRUE, FALSE)

\* the rows stored under the key of an event
RowsFor(rows, event) == {i \in 1..Len(rows) : IsAssetFor(rows[i], event)}

\* both workers looked the same non-empty key up, neither query failed, and
\* both saw no asset
BothSawNone ==
    /\ EventKey(workers[1].event) = EventKey(workers[2].event)
    /\ Canon(workers[1].event.storage_path.s) # <<>>
    /\ \A w \in {1, 2} :
          /\ LookedUp(w)
          /\ ~workers[w].event.query_fails
          /\ workers[w].existing.t = "none"

\* C23: without external serialisation two workers handling the same
\* (connectorId, normalizedPath) can both see no existing asset; both then
\* reconcile to insert, and once both have written the store holds two
\* asset records for the key.
C23_RaceInsertsTwice ==
    BothSawNone =>
        /\ \A w \in {1, 2} :
              workers[w].pc \in {"decided", "done"}
                  => workers[w].decision = Returned(TRUE, FALSE)
        /\ (\A w \in {1, 2} : workers[w].pc = "done")
              => Cardinality(RowsFor(assetsTable, workers[1].event)) = 2

C23_Witness ==
    /\ BothSawNone
    /\ \A w \in {1, 2} : workers[w].pc = "done"
    /\ Len(assetsTable) = 2
    /\ RowKey(assetsTable[1]) = RowKey(assetsTable[2])

\* no two rows of the table have the same (connector_id, normalised path)
AtMostOnePerKey ==
    \A i, j \in 1..Len(assetsTable) :
        RowKey(assetsTable[i]) = RowKey(assetsTable[j]) => i = j

\* the step just taken handled an event with a skip decision
SkipStep ==
    /\ Len(workers') = Len(workers) + 1
    /\ workers'[Len(workers')].decision.k = "return"
    /\ ~workers'[Len(workers')].decision.update

\* C24: with lookup, reconcile and write as one serialised step, after any
\* sequence of discovery events the store holds at most one asset record per
\* (connectorId, normalizedPath), and a skip decision leaves the store
\* unchanged.
C24_SerialOnePerKey ==
    /\ []AtMostOnePerKey
    /\ [][SkipStep => assetsTable' = assetsTable]_vars

\* the asset the store resolves for a key
AssetOf(key) == FirstMatch(assetsTable, key[1], key[2], 1)

\* C27: in a serialised run, after every discovery event the stored schema
\* hash of the asset equals the schema hash of the most recently discovered
\* version of that path.
C27_StoredSchemaIsLatest ==
    \A key \in Keys :
        latest[key] # NoFingerprint =>
            /\ AssetOf(key).t = "asset"
            /\ AssetOf(key).technical_metadata.schema_hash = latest[key].schema_hash

(***************************************************************************)
(* Notifier properties                                                     *)
(***************************************************************************)
Ids(list) == {list[k] : k \in 1..Len(list)}

Emailed(id) == \E k \in 1..Len(outbox) : id \in Ids(outbox[k])

Marked(rows) == {i \in 1..Len(rows) : rows[i].notification_sent_at}

\* no discovery is marked without having been listed in a delivered email
MarkedOnlyIfEmailed == \A id \in Marked(data_discovery) : Emailed(id)

\* marks are set only by the status update that follows a successful send,
\* and only on the discoveries of the email just delivered
MarksFollowSend ==
    Marked(data_discovery') # Marked(data_discovery) =>
        /\ notifier.pc = "sent"
        /\ outbox # <<>>
        /\ Marked(data_discovery') \ Marked(data_discovery)
              \subseteq Ids(outbox[Len(outbox)])

\* a failure of building, sending or updating ends the run with the
\* exception and marks nothing; a send that delivers nothing never goes on
RaisePropagates ==
    /\ (notifier.pc \in {"selected", "built", "sent"} /\ notifier'.pc = "raised")
          => Marked(data_discovery') = Marked(data_discovery)
    /\ (notifier.pc = "built" /\ notifier'.pc # "built" /\ outbox' = outbox)
          => notifier'.pc = "raised"
    /\ (notifier.pc = "selected" /\ notifier'.pc = "built")
          => \A id \in Ids(notifier.discoveries) : data_discovery[id].renderable

\* a run selects every discovery still in the window and still unmarked,
\* emailed before or not
SelectsUnmarked ==
    (notifier.pc = "idle" /\ notifier'.pc \in {"selected", "returned"}) =>
        Ids(notifier'.discoveries) =
            {i \in 1..Len(data_discovery) :
                data_discovery[i].fresh /\ ~data_discovery[i].notification_sent_at}

\* C30: notification_sent_at is set only after the email listing the
\* discovery has been sent successfully; if building or sending raises, no
\* discovery is marked and the error propagates; if sending succeeds but the
\* status update fails, the discoveries stay unmarked and are selected again
\* by the next run within the window (emailed more than once, never marked
\* without being emailed).
C30_MarkedAfterSend ==
    /\ []MarkedOnlyIfEmailed
    /\ [][MarksFollowSend /\ RaisePropagates /\ SelectsUnmarked]_vars

\* the status update failed after a delivered email, and the next run
\* selected and emailed the same discovery again
C30_Witness ==
    /\ Len(outbox) = 2
    /\ outbox[1] # <<>>
    /\ Ids(outbox[1]) \subseteq Ids(outbox[2])
    /\ notifier.runs = 2
    /\ notifier.pc = "sent"
    /\ Marked(data_discovery) = {}

====
